---- MODULE Spec2Model ----
(***************************************************************************)
(* Model of the automation layer of SIGMA:                                 *)
(*   - WorkflowEngine  (src/backend/automation/workflow_engine.py)         *)
(*   - ErrorRecovery   (src/backend/automation/error_recovery.py)          *)
(*   - RetryPolicy     (src/backend/automation/error_recovery.py)          *)
(*   - TaskQueue       (src/backend/automation/task_scheduler.py)          *)
(*   - TaskScheduler   (src/backend/automation/task_scheduler.py)          *)
(*   - RulesEngine     (src/backend/automation/rules_engine.py)            *)
(*   - AgentOrchestrator (src/backend/automation/orchestrator.py)          *)
(* Each component has its own variables and its own specification; the     *)
(* variables of the other components are parked at a fixed value.          *)
(***************************************************************************)
EXTENDS Integers, Sequences, FiniteSets, TLC

VARIABLES
    \* ---- WorkflowEngine: the workflow handed to execute_workflow
    depends_on,     \* step id -> set of ids (WorkflowStep.depends_on)
    retry_count,    \* step id -> int        (WorkflowStep.retry_count)
    step_condition, \* step id -> WorkflowStep.condition
    parallel,       \* Workflow.parallel
    wf_status,      \* Workflow.status
    step_status,    \* step id -> WorkflowStep.status
    step_error,     \* step id -> WorkflowStep.error
    attempts,       \* step id -> WorkflowStep.attempts
    results,        \* keys of Workflow.results
    completed,      \* local set `completed` of _execute_sequential
    ready,          \* rest of the list `ready_steps` being iterated
    levels_left,    \* rest of sorted(levels.items()) in _execute_parallel
    wpc,            \* position of execute_workflow
    spc,            \* step id -> position of its _execute_step coroutine
    invoked,        \* step id -> number of agent_executor calls (history)
    last_ok,        \* step id -> outcome of its latest agent_executor call
    returned,       \* status in the dict execute_workflow returned
    raised,         \* TRUE iff the try body of execute_workflow raised
    updates,        \* what update_callback has received (see SendUpdate)
    \* ---- ErrorRecovery
    circuit_breakers, \* ErrorRecovery.circuit_breakers: context -> breaker
    now,            \* the reading of datetime.utcnow(), in seconds
    calls,          \* caller -> its execute_with_retry call in flight
    last,           \* what the latest step did to a call: its event
    consec,         \* context -> retry-exhaustions since the last success
    \* ---- RetryPolicy.calculate_delay, called on its own
    dl_policy,      \* the RetryPolicy
    dl_attempt,     \* the argument `attempt` of the latest call (0: none yet)
    dl_delay,       \* calculate_delay(attempt)
    dl_next,        \* calculate_delay(attempt + 1)
    \* ---- TaskQueue
    tq_queue,       \* TaskQueue._queue: the list heapq keeps as a heap
    tq_counter,     \* TaskQueue._counter
    tq_order,       \* the queued entries in the order of their push (history)
    tq_last,        \* what the latest push, pop or clear did: its event
    \* ---- TaskScheduler (its task_queue is the TaskQueue above)
    task_objs,      \* task id -> the fields of its ScheduledTask object
    scheduled_tasks, \* keys of TaskScheduler.scheduled_tasks, in dict order
    running_tasks,  \* TaskScheduler.running_tasks: task id -> execution
    max_concurrent, \* TaskScheduler.max_concurrent
    ts_execs,       \* execution -> its run() coroutine, while not finished
    ts_nexec,       \* number of run() coroutines created so far
    ts_loop,        \* position of _scheduler_loop
    ts_wake,        \* when the asyncio.sleep of the loop ends
    ts_now,         \* the reading of datetime.utcnow()
    ts_launches,    \* task id -> number of its launches (history)
    ts_reached,     \* the tasks whose run_count has reached max_runs (history)
    ts_freed,       \* a slot was freed since the last tick, work waiting
    ts_last,        \* what the latest step of the scheduler did: its event
    \* ---- RulesEngine
    re_rules,       \* RulesEngine.rules: rule id -> the fields of its Rule
    re_order,       \* keys of RulesEngine.rules, in dict order
    re_context,     \* RulesEngine.context["cpu"]
    re_executor,    \* TRUE iff the engine has an action_executor
    re_evals,       \* number of evaluate_all_rules calls so far
    re_last,        \* what the latest call of the engine did: its event
    \* ---- AgentOrchestrator
    or_agents,      \* keys of AgentOrchestrator.agents, in dict order
    or_stats,       \* agent_stats: name -> the task counters of its entry
    or_stats_order, \* keys of agent_stats, in dict order
    or_queues,      \* message_queues: name -> its asyncio.Queue (a number)
    or_mail,        \* asyncio.Queue number -> the messages it holds
    or_sent,        \* asyncio.Queue number -> the messages put (history)
    or_recv,        \* asyncio.Queue number -> the messages returned (history)
    or_waiting,     \* receiver -> the queue its receive_message waits on, or 0
    or_nsent,       \* number of messages sent so far
    or_tasks,       \* number of execute_task calls so far
    or_last         \* what the latest call of the orchestrator did: its event

wfVars == <<depends_on, retry_count, step_condition, parallel, wf_status,
            step_status, step_error, attempts, results, completed, ready,
            levels_left, wpc, spc, invoked, last_ok, returned, raised,
            updates>>

erVars == <<circuit_breakers, now, calls, last, consec>>

dlVars == <<dl_policy, dl_attempt, dl_delay, dl_next>>

tqVars == <<tq_queue, tq_counter, tq_order, tq_last>>

tsVars == <<task_objs, scheduled_tasks, running_tasks, max_concurrent,
            ts_execs, ts_nexec, ts_loop, ts_wake, ts_now, ts_launches,
            ts_reached, ts_freed, ts_last>>

reVars == <<re_rules, re_order, re_context, re_executor, re_evals, re_last>>

orVars == <<or_agents, or_stats, or_stats_order, or_queues, or_mail, or_sent,
            or_recv, or_waiting, or_nsent, or_tasks, or_last>>

vars == <<wfVars, erVars, dlVars, tqVars, tsVars, reVars, orVars>>

\* what the steps of one component leave alone
nonWF == <<erVars, dlVars, tqVars, tsVars, reVars, orVars>>
nonER == <<wfVars, dlVars, tqVars, tsVars, reVars, orVars>>
nonDL == <<wfVars, erVars, tqVars, tsVars, reVars, orVars>>
nonTQ == <<wfVars, erVars, dlVars, tsVars, reVars, orVars>>
nonTS == <<wfVars, erVars, dlVars, reVars, orVars>>
nonRE == <<wfVars, erVars, dlVars, tqVars, tsVars, orVars>>
nonOR == <<wfVars, erVars, dlVars, tqVars, tsVars, reVars>>

----------------------------------------------------------------------------
(* Bounds and inputs of the workflow model *)

\* largest retry_count a step of the model is given
MaxRetry == 2

\* the steps of the workflow, in the order of the list given to Workflow()
StepOrder == <<"A", "B", "C">>

StepIds == {StepOrder[i] : i \in 1..Len(StepOrder)}

\* an id that names no step of the workflow
MissingId == "X"

DepIds == StepIds \cup {MissingId}

NoError == "none"
DepsNotMet == "Dependencies not met"
CondNotMet == "Condition not met"
ExecError == "executor raised"

\* str(e) of the exceptions the executor raises where the retry decisions
\* are examined, and the words of _categorize_error each contains
StepErrors == {"connection refused", "invalid input"}

ErrorWords(msg) ==
    IF msg = "connection refused" THEN {"connection"}
    ELSE IF msg = "invalid input" THEN {"invalid"}
    ELSE {}

Terminal == {"success", "failed", "skipped"}

SetMax(S) == CHOOSE m \in S : \A x \in S : x <= m

----------------------------------------------------------------------------
(* WorkflowEngine: pure helpers *)

\* condition = None
NoCondition == [step |-> "None", status |-> "None"]

\* the conditions steps are given: strings of the format the comment of
\* _check_condition names, "step_id.status == 'status'", kept as the pair
Conditions ==
    {NoCondition, [step |-> "A", status |-> "success"],
     [step |-> "A", status |-> "failed"]}

\* _check_condition: every path returns True
CheckCondition(s) == IF step_condition[s] = NoCondition THEN TRUE ELSE TRUE

\* ready_steps without the test for status pending
ReadySteps_AnyStatus(st, done) ==
    SelectSeq(StepOrder, LAMBDA s : depends_on[s] \subseteq done)

\* the list comprehension `ready_steps` of _execute_sequential
ReadySteps(st, done) ==
    SelectSeq(StepOrder,
              LAMBDA s : st[s] = "pending" /\ depends_on[s] \subseteq done)

\* get_level of _compute_dependency_levels; -1 stands for a raised
\* exception: KeyError on an id that is no step, RecursionError when the
\* recursion does not end (fuel exhausted only on a cycle).
RECURSIVE GetLevel(_, _)
GetLevel(s, fuel) ==
    IF s \notin StepIds THEN -1
    ELSE IF depends_on[s] = {} THEN 0
    ELSE IF fuel = 0 THEN -1
    ELSE LET ls == {GetLevel(d, fuel - 1) : d \in depends_on[s]}
         IN  IF -1 \in ls THEN -1 ELSE SetMax(ls) + 1

StepLevel(s) == GetLevel(s, Cardinality(StepIds))

\* _compute_dependency_levels raising on a missing id only, a cycle left
\* without a level
LevelsRaise_MissingOnly == \E s \in StepIds : ~(depends_on[s] \subseteq StepIds)

\* _compute_dependency_levels raises
LevelsRaise == \E s \in StepIds : StepLevel(s) = -1

\* sorted(levels.items()): the steps of each level, by ascending level
RECURSIVE LevelsFrom(_)
LevelsFrom(k) ==
    LET here == {s \in StepIds : StepLevel(s) = k}
    IN  IF k > Cardinality(StepIds) THEN <<>>
        ELSE IF here = {} THEN LevelsFrom(k + 1)
        ELSE <<here>> \o LevelsFrom(k + 1)

ComputeDependencyLevels == LevelsFrom(0)

\* FinalStatus with a skipped step counted as a failure
FinalStatus_SkippedFails(st) ==
    IF \A s \in StepIds : st[s] = "success" THEN "success" ELSE "failed"

\* "Determine final status" of execute_workflow
FinalStatus(st) ==
    IF \A s \in StepIds : st[s] = "success" THEN "success"
    ELSE IF \E s \in StepIds : st[s] = "failed" THEN "failed"
    ELSE "success"

\* update_callback before its first call
NoUpdates == [first |-> "none", last |-> "none", final |-> "none", steps |-> {}]

\* _send_update with an update_callback installed.  Of the events it was
\* called with the callback of the model keeps: the kind of the first and of
\* the latest ("started": "Workflow started"; "step": a message on a step;
\* "failed": "Workflow failed: ..."), the "status" field of the latest event
\* that is not on a step, and the steps that events were about.
SendUpdate(u, kind, status, steps) ==
    [first |-> IF u.first = "none" THEN kind ELSE u.first,
     last |-> kind,
     final |-> IF kind = "step" THEN u.final ELSE status,
     steps |-> u.steps \cup steps]

StepActive(s) == spc[s] \in {"scheduled", "awaiting", "sleeping"}

\* the retry test of _execute_step allowing one attempt too many
MoreAttempts_UpToRetryCount(s) == attempts[s] - 1 < retry_count[s]

\* `attempt < step.retry_count - 1` of _execute_step, for the attempt just
\* made (attempt = step.attempts - 1)
MoreAttempts(s) == attempts[s] - 1 < retry_count[s] - 1

----------------------------------------------------------------------------
(* WorkflowEngine: initial state *)

\* a Workflow as its constructor leaves it
NewWorkflow ==
    /\ wf_status = "pending"
    /\ step_status = [s \in StepIds |-> "pending"]
    /\ step_error = [s \in StepIds |-> NoError]
    /\ attempts = [s \in StepIds |-> 0]
    /\ results = {}
    /\ completed = {}
    /\ ready = <<>>
    /\ levels_left = <<>>
    /\ wpc = "idle"
    /\ spc = [s \in StepIds |-> "idle"]
    /\ invoked = [s \in StepIds |-> 0]
    /\ last_ok = [s \in StepIds |-> "none"]
    /\ returned = "none"
    /\ raised = FALSE
    /\ updates = NoUpdates

InitWF ==
    /\ depends_on \in [StepIds -> SUBSET DepIds]
    /\ retry_count \in [StepIds -> 0..MaxRetry]
    /\ step_condition = [s \in StepIds |-> NoCondition]
    /\ parallel \in BOOLEAN
    /\ NewWorkflow

\* the one workflow present while the specification of another component runs
ParkedWF ==
    /\ depends_on = [s \in StepIds |-> {}]
    /\ retry_count = [s \in StepIds |-> 1]
    /\ step_condition = [s \in StepIds |-> NoCondition]
    /\ parallel = FALSE
    /\ NewWorkflow

----------------------------------------------------------------------------
(* WorkflowEngine: actions *)

\* execute_workflow up to the dispatch of the first step or level; in
\* parallel mode _compute_dependency_levels may raise, which the except
\* branch turns into status failed.
ExecuteWorkflow ==
    /\ wpc = "idle"
    /\ IF parallel /\ LevelsRaise
       THEN /\ wf_status' = "failed"
            /\ raised' = TRUE
            /\ returned' = "failed"
            /\ wpc' = "done"
            /\ levels_left' = levels_left
            /\ updates' = SendUpdate(
                              SendUpdate(updates, "started", "running", {}),
                              "failed", "failed", {})
       ELSE /\ wf_status' = "running"
            /\ raised' = FALSE
            /\ returned' = returned
            /\ wpc' = IF parallel THEN "par" ELSE "seq"
            /\ levels_left' = IF parallel THEN ComputeDependencyLevels ELSE <<>>
            /\ updates' = SendUpdate(updates, "started", "running", {})
    /\ UNCHANGED <<depends_on, retry_count, step_condition, parallel,
                   step_status, step_error,
                   attempts, results, completed, ready, spc, invoked, last_ok>>
    /\ UNCHANGED nonWF

\* one evaluation of the while loop of _execute_sequential with the for
\* loop over the previous ready_steps finished: leave the loop and return,
\* or skip what is stuck and return, or take the next ready_steps.
SeqLoop ==
    /\ wpc = "seq"
    /\ ready = <<>>
    /\ \A s \in StepIds : ~StepActive(s)
    /\ IF Cardinality(completed) < Cardinality(StepIds)
       THEN LET rs == ReadySteps(step_status, completed)
                remaining == {s \in StepIds : step_status[s] = "pending"}
                st == [s \in StepIds |->
                         IF s \in remaining THEN "skipped" ELSE step_status[s]]
            IN  IF rs = <<>>
                THEN /\ step_status' = st
                     /\ step_error' = [s \in StepIds |->
                           IF s \in remaining THEN DepsNotMet ELSE step_error[s]]
                     /\ completed' = completed \cup remaining
                     /\ wf_status' = FinalStatus(st)
                     /\ returned' = FinalStatus(st)
                     /\ wpc' = "done"
                     /\ ready' = ready
                ELSE /\ ready' = rs
                     /\ UNCHANGED <<step_status, step_error, completed,
                                    wf_status, returned, wpc>>
       ELSE /\ wf_status' = FinalStatus(step_status)
            /\ returned' = FinalStatus(step_status)
            /\ wpc' = "done"
            /\ UNCHANGED <<step_status, step_error, completed, ready>>
    /\ UNCHANGED <<depends_on, retry_count, step_condition, parallel,
                   attempts, results,
                   levels_left, spc, invoked, last_ok, raised, updates>>
    /\ UNCHANGED nonWF

\* _execute_step returns: in sequential mode the caller adds the step to
\* `completed` and moves to the next ready step; in parallel mode the task
\* of the step ends.
StepReturn(s) ==
    /\ spc' = [spc EXCEPT ![s] = "done"]
    /\ IF parallel
       THEN UNCHANGED <<completed, ready>>
       ELSE /\ completed' = completed \cup {s}
            /\ ready' = Tail(ready)

\* _execute_step from its entry to the first await: status running, then
\* the first agent_executor call if range(retry_count) is not empty.
StepBegin(s) ==
    /\ step_status' = [step_status EXCEPT ![s] = "running"]
    /\ updates' = SendUpdate(updates, "step", wf_status, {s})
    /\ IF retry_count[s] <= 0
       THEN /\ StepReturn(s)
            /\ UNCHANGED <<attempts, invoked>>
       ELSE /\ attempts' = [attempts EXCEPT ![s] = 1]
            /\ invoked' = [invoked EXCEPT ![s] = @ + 1]
            /\ spc' = [spc EXCEPT ![s] = "awaiting"]
            /\ UNCHANGED <<completed, ready>>
    /\ UNCHANGED <<depends_on, retry_count, step_condition, parallel,
                   wf_status, step_error,
                   results, levels_left, wpc, last_ok, returned, raised>>

\* a step marked skipped because _check_condition is false
StepCondSkip(s) ==
    /\ step_status' = [step_status EXCEPT ![s] = "skipped"]
    /\ step_error' = [step_error EXCEPT ![s] = CondNotMet]
    /\ StepReturn(s)
    /\ UNCHANGED <<depends_on, retry_count, step_condition, parallel,
                   wf_status, attempts,
                   results, levels_left, wpc, invoked, last_ok, returned,
                   raised, updates>>

\* the body of the for loop over ready_steps in _execute_sequential
SeqStep ==
    /\ wpc = "seq"
    /\ ready # <<>>
    /\ ~StepActive(Head(ready))
    /\ IF CheckCondition(Head(ready))
       THEN StepBegin(Head(ready))
       ELSE StepCondSkip(Head(ready))
    /\ UNCHANGED nonWF

\* a task of the current level starts; asyncio starts the tasks of gather
\* in the order they were created
ParStep(s) ==
    /\ wpc = "par"
    /\ spc[s] = "scheduled"
    /\ \A i, j \in 1..Len(StepOrder) :
          (StepOrder[j] = s /\ i < j) => spc[StepOrder[i]] # "scheduled"
    /\ StepBegin(s)
    /\ UNCHANGED nonWF

\* the awaited agent_executor call of step s returns (ok) or raises e
StepResult(s, ok, e) ==
    /\ spc[s] = "awaiting"
    /\ last_ok' = [last_ok EXCEPT ![s] = IF ok THEN "ok" ELSE "raised"]
    /\ updates' = SendUpdate(updates, "step", wf_status, {s})
    /\ IF ok
       THEN /\ step_status' = [step_status EXCEPT ![s] = "success"]
            /\ results' = results \cup {s}
            /\ step_error' = step_error
            /\ StepReturn(s)
       ELSE /\ step_error' = [step_error EXCEPT ![s] = e]
            /\ results' = results
            /\ IF MoreAttempts(s)
               THEN /\ spc' = [spc EXCEPT ![s] = "sleeping"]
                    /\ UNCHANGED <<step_status, completed, ready>>
               ELSE /\ step_status' = [step_status EXCEPT ![s] = "failed"]
                    /\ StepReturn(s)
    /\ UNCHANGED <<depends_on, retry_count, step_condition, parallel,
                   wf_status, attempts,
                   levels_left, wpc, invoked, returned, raised>>
    /\ UNCHANGED nonWF

\* asyncio.sleep(2 ** attempt) of step s ends: the next attempt starts
StepWake(s) ==
    /\ spc[s] = "sleeping"
    /\ attempts' = [attempts EXCEPT ![s] = @ + 1]
    /\ invoked' = [invoked EXCEPT ![s] = @ + 1]
    /\ spc' = [spc EXCEPT ![s] = "awaiting"]
    /\ UNCHANGED <<depends_on, retry_count, step_condition, parallel,
                   wf_status, step_status,
                   step_error, results, completed, ready, levels_left, wpc,
                   last_ok, returned, raised, updates>>
    /\ UNCHANGED nonWF

\* one turn of the for loop of _execute_parallel with the previous gather
\* joined: start the tasks of the next level, or return
ParLevel ==
    /\ wpc = "par"
    /\ \A s \in StepIds : ~StepActive(s)
    /\ IF levels_left = <<>>
       THEN /\ wf_status' = FinalStatus(step_status)
            /\ returned' = FinalStatus(step_status)
            /\ wpc' = "done"
            /\ UNCHANGED <<levels_left, spc, step_status, step_error>>
       ELSE /\ levels_left' = Tail(levels_left)
            /\ spc' = [s \in StepIds |->
                  IF s \in Head(levels_left) /\ CheckCondition(s)
                  THEN "scheduled" ELSE spc[s]]
            /\ step_status' = [s \in StepIds |->
                  IF s \in Head(levels_left) /\ ~CheckCondition(s)
                  THEN "skipped" ELSE step_status[s]]
            /\ step_error' = [s \in StepIds |->
                  IF s \in Head(levels_left) /\ ~CheckCondition(s)
                  THEN CondNotMet ELSE step_error[s]]
            /\ UNCHANGED <<wf_status, returned, wpc>>
    /\ UNCHANGED <<depends_on, retry_count, step_condition, parallel,
                   attempts, results,
                   completed, ready, invoked, last_ok, raised, updates>>
    /\ UNCHANGED nonWF

\* the workflow is in active_workflows and execute_workflow is suspended
\* (or has returned): another coroutine can run the control methods
ControlPoint ==
    \/ wpc = "done"
    \/ /\ wpc \in {"seq", "par"}
       /\ \E s \in StepIds : StepActive(s)
       /\ \A s \in StepIds : spc[s] # "scheduled"

SetStatus(v) ==
    /\ wf_status' = v
    /\ UNCHANGED <<depends_on, retry_count, step_condition, parallel,
                   step_status,
                   step_error, attempts, results, completed, ready,
                   levels_left, wpc, spc, invoked, last_ok, returned, raised,
                   updates>>
    /\ UNCHANGED nonWF

pause_workflow ==
    /\ ControlPoint
    /\ wf_status # "paused"
    /\ SetStatus("paused")

resume_workflow ==
    /\ ControlPoint
    /\ wf_status = "paused"
    /\ SetStatus("running")

cancel_workflow ==
    /\ ControlPoint
    /\ wf_status # "cancelled"
    /\ SetStatus("cancelled")

NextWF ==
    \/ ExecuteWorkflow
    \/ SeqLoop
    \/ SeqStep
    \/ ParLevel
    \/ \E s \in StepIds : ParStep(s)
    \/ \E s \in StepIds, ok \in BOOLEAN : StepResult(s, ok, ExecError)
    \/ \E s \in StepIds : StepWake(s)
    \/ pause_workflow
    \/ resume_workflow
    \/ cancel_workflow

\* steps without dependencies, in either mode: what _execute_step does with
\* each kind of error
InitStep ==
    /\ depends_on = [s \in StepIds |-> {}]
    /\ retry_count \in [StepIds -> 0..MaxRetry]
    /\ step_condition = [s \in StepIds |-> NoCondition]
    /\ parallel \in BOOLEAN
    /\ NewWorkflow

\* steps with conditions on the outcome of the first step, which the
\* others depend on or not
InitCond ==
    /\ depends_on \in [StepIds -> {{}, {StepOrder[1]}}]
    /\ depends_on[StepOrder[1]] = {}
    /\ retry_count \in [StepIds -> 1..MaxRetry]
    /\ step_condition \in [StepIds -> Conditions]
    /\ step_condition[StepOrder[1]] = NoCondition
    /\ parallel \in BOOLEAN
    /\ NewWorkflow

NextStep ==
    \/ ExecuteWorkflow
    \/ SeqLoop
    \/ SeqStep
    \/ ParLevel
    \/ \E s \in StepIds : ParStep(s)
    \/ \E s \in StepIds, ok \in BOOLEAN, e \in StepErrors : StepResult(s, ok, e)
    \/ \E s \in StepIds : StepWake(s)

----------------------------------------------------------------------------
(* ErrorRecovery: constants, bounds and inputs *)

\* "threshold": 5 and "timeout": 60 of a new circuit breaker
Threshold == 5
BreakerTimeout == 60

\* delays are counted in units of 1/DelayScale second
DelayScale == 10

\* RetryPolicy defaults: base_delay = 1.0, max_delay = 60.0 (seconds)
DefaultBaseDelay == 1 * DelayScale
DefaultMaxDelay == 60 * DelayScale

\* largest max_attempts of a policy of the model
MaxAttempts == 3
\* no call is started once the failure count of its context plus the calls
\* in flight reaches MaxFailures
MaxFailures == 7
\* the clock advances in steps of TickStep seconds up to MaxNow
TickStep == 60
MaxNow == 240

\* the coroutines that call execute_with_retry
Procs == {"p1", "p2"}

\* the context strings the callers use
Contexts == {"ctx"}

\* opened_at = None
NoTime == -1

\* last_error = None
NoErr == {"<None>"}

\* An error raised by the operation is modelled by the set of the words of
\* _categorize_error that its message or type name contains.
ErrorMsgs == {{"connection"}, {"timeout"}, {"invalid"}}

\* the messages raised where the schedule of the retries is examined: one
\* retryable, one not
ScheduleErrors == {{"connection"}, {"invalid"}}

\* RetryPolicy.retry_on_errors default
DefaultRetryOn == {"network", "timeout", "rate_limit"}

Min(a, b) == IF a <= b THEN a ELSE b

RECURSIVE Pow2(_)
Pow2(n) == IF n <= 0 THEN 1 ELSE 2 * Pow2(n - 1)

----------------------------------------------------------------------------
(* RetryPolicy *)

RECURSIVE FibLoop(_, _, _)
FibLoop(a, b, k) == IF k <= 0 THEN b ELSE FibLoop(b, a + b, k - 1)

\* RetryPolicy._fibonacci
Fibonacci(n) == IF n <= 2 THEN 1 ELSE FibLoop(1, 1, n - 2)

\* the values random.uniform(0, exp_delay * 0.1) is sampled at: the whole
\* units of the interval
JitterDraws(pol, attempt) ==
    IF pol.backoff_strategy = "jitter"
    THEN 0..((pol.base_delay * Pow2(attempt - 1)) \div 10)
    ELSE {0}

\* calculate_delay without the cap at max_delay
CalculateDelay_NoCap(pol, attempt, jitter) ==
    LET s == pol.backoff_strategy
    IN  IF s = "linear" THEN pol.base_delay * attempt
        ELSE IF s = "fibonacci" THEN Fibonacci(attempt) * pol.base_delay
        ELSE IF s \in {"exponential", "jitter"}
             THEN pol.base_delay * Pow2(attempt - 1) + jitter
        ELSE pol.base_delay

\* RetryPolicy.calculate_delay; jitter is the value random.uniform returned
CalculateDelay(pol, attempt, jitter) ==
    LET s == pol.backoff_strategy
        delay ==
            IF s = "constant" THEN pol.base_delay
            ELSE IF s = "linear" THEN pol.base_delay * attempt
            ELSE IF s = "exponential" THEN pol.base_delay * Pow2(attempt - 1)
            ELSE IF s = "fibonacci" THEN Fibonacci(attempt) * pol.base_delay
            ELSE IF s = "jitter"
                 THEN pol.base_delay * Pow2(attempt - 1) + jitter
            ELSE pol.base_delay
    IN  Min(delay, pol.max_delay)

BackoffStrategies ==
    {"constant", "linear", "exponential", "fibonacci", "jitter"}

\* the policies a single caller passes
Policies ==
    [max_attempts : 0..MaxAttempts,
     backoff_strategy : BackoffStrategies,
     base_delay : {DefaultBaseDelay},
     max_delay : {DefaultMaxDelay},
     retry_on_errors : {DefaultRetryOn},
     fallback_action : BOOLEAN]

\* the policies of the calls whose outcome is examined: the retryable set
\* and the fallback vary
OutcomePolicies ==
    [max_attempts : 0..MaxAttempts,
     backoff_strategy : {"exponential"},
     base_delay : {DefaultBaseDelay},
     max_delay : {DefaultMaxDelay},
     retry_on_errors : {DefaultRetryOn, {"timeout"}},
     fallback_action : BOOLEAN]

\* the policies concurrent callers pass: RetryPolicy() with its defaults
\* but for max_attempts
ConcurrentPolicies ==
    {pol \in Policies :
        /\ pol.max_attempts \in {0, 1, 2}
        /\ pol.backoff_strategy = "exponential"
        /\ pol.base_delay = DefaultBaseDelay
        /\ pol.retry_on_errors = DefaultRetryOn
        /\ ~pol.fallback_action}

----------------------------------------------------------------------------
(* ErrorRecovery: pure helpers on the circuit_breakers dict *)

\* _categorize_error: the tests in their order
CategorizeError(e) ==
    IF "timeout" \in e THEN "timeout"
    ELSE IF e \cap {"network", "connection", "unreachable"} # {} THEN "network"
    ELSE IF e \cap {"rate limit", "too many requests", "429"} # {}
         THEN "rate_limit"
    ELSE IF e \cap {"auth", "unauthorized", "401", "403"} # {}
         THEN "authentication"
    ELSE IF e \cap {"memory", "disk", "resource", "quota"} # {} THEN "resource"
    ELSE IF e \cap {"validation", "invalid", "bad request", "400"} # {}
         THEN "validation"
    ELSE "unknown"

\* the dict _is_circuit_open stores for a context it has not seen
NewBreaker ==
    [state |-> "closed", failures |-> 0, opened_at |-> NoTime,
     threshold |-> Threshold, timeout |-> BreakerTimeout]

BreakerState(cb, c) == IF c \in DOMAIN cb THEN cb[c].state ELSE "absent"
BreakerFailures(cb, c) == IF c \in DOMAIN cb THEN cb[c].failures ELSE 0
BreakerOpenedAt(cb, c) == IF c \in DOMAIN cb THEN cb[c].opened_at ELSE NoTime

\* the cool-down test of _is_circuit_open at clock reading t
CooledDown(cb, c, t) ==
    /\ c \in DOMAIN cb
    /\ cb[c].opened_at # NoTime
    /\ t - cb[c].opened_at > cb[c].timeout

\* _is_circuit_open without the elapsed-time test
IsCircuitOpen_NoCoolDown(cb, c, t) ==
    LET cb1 == IF c \in DOMAIN cb THEN cb ELSE (c :> NewBreaker) @@ cb
    IN  IF cb1[c].state = "open"
        THEN [open |-> FALSE, cb |-> [cb1 EXCEPT ![c].state = "half-open"]]
        ELSE [open |-> FALSE, cb |-> cb1]

\* _is_circuit_open at clock reading t: the answer and the dict it leaves
IsCircuitOpen(cb, c, t) ==
    LET cb1 == IF c \in DOMAIN cb THEN cb ELSE (c :> NewBreaker) @@ cb
    IN  IF cb1[c].state = "open"
        THEN IF CooledDown(cb1, c, t)
             THEN [open |-> FALSE,
                   cb |-> [cb1 EXCEPT ![c].state = "half-open"]]
             ELSE [open |-> TRUE, cb |-> cb1]
        ELSE [open |-> FALSE, cb |-> cb1]

\* _record_success that zeroes the count and leaves the state
RecordSuccess_CountOnly(cb, c) ==
    IF c \in DOMAIN cb
    THEN [cb EXCEPT ![c].failures = 0]
    ELSE cb

\* _record_success
RecordSuccess(cb, c) ==
    IF c \in DOMAIN cb
    THEN [cb EXCEPT ![c].failures = 0, ![c].state = "closed"]
    ELSE cb

\* _trip_circuit_breaker that opens only above the threshold
TripCircuitBreaker_Above(cb, c, t) ==
    IF c \notin DOMAIN cb THEN cb
    ELSE LET f == cb[c].failures + 1
         IN  IF f > cb[c].threshold
             THEN [cb EXCEPT ![c].failures = f, ![c].state = "open",
                             ![c].opened_at = t]
             ELSE [cb EXCEPT ![c].failures = f]

\* _trip_circuit_breaker that keeps the opened_at of the first opening
TripCircuitBreaker_StaleOpenedAt(cb, c, t) ==
    IF c \notin DOMAIN cb THEN cb
    ELSE LET f == cb[c].failures + 1
         IN  IF f >= cb[c].threshold
             THEN [cb EXCEPT ![c].failures = f, ![c].state = "open",
                             ![c].opened_at =
                                 IF @ = NoTime THEN t ELSE @]
             ELSE [cb EXCEPT ![c].failures = f]

\* _trip_circuit_breaker at clock reading t
TripCircuitBreaker(cb, c, t) ==
    IF c \notin DOMAIN cb THEN cb
    ELSE LET f == cb[c].failures + 1
         IN  IF f >= cb[c].threshold
             THEN [cb EXCEPT ![c].failures = f, ![c].state = "open",
                             ![c].opened_at = t]
             ELSE [cb EXCEPT ![c].failures = f]

\* reset_circuit_breaker that leaves the failure count
ResetBreaker_KeepsFailures(cb, c) ==
    IF c \in DOMAIN cb
    THEN [cb EXCEPT ![c].state = "closed", ![c].opened_at = NoTime]
    ELSE cb

\* reset_circuit_breaker
ResetBreaker(cb, c) ==
    IF c \in DOMAIN cb
    THEN [cb EXCEPT ![c].state = "closed", ![c].failures = 0,
                    ![c].opened_at = NoTime]
    ELSE cb

\* "Check if error is retryable" of execute_with_retry, answering yes
IsRetryable_Always(pol, e) == TRUE

\* "Check if error is retryable" of execute_with_retry
IsRetryable(pol, e) == CategorizeError(e) \in pol.retry_on_errors

\* "Last attempt?" of execute_with_retry, off by one
IsLastAttempt_OffByOne(pol, attempt) == attempt > pol.max_attempts

\* "Last attempt?" of execute_with_retry
IsLastAttempt(pol, attempt) == attempt >= pol.max_attempts

----------------------------------------------------------------------------
(* ErrorRecovery: state.  error_stats (_record_error, get_error_stats) is
   written on every failure and read by no decision of execute_with_retry;
   it is left out. *)

IdleCall == [pc |-> "idle"]

NoEvent == [kind |-> "none"]

InFlight(p) == calls[p].pc # "idle"

\* no call of the fallback
NoCall == {"<not called>"}

\* Exception("Circuit breaker open for context: ...")
CircuitOpenError == {"circuit breaker open"}

\* raise x: x itself, or TypeError when x is None
Raise(x) == IF x = NoErr THEN {"TypeError"} ELSE x

\* the event of a step on call rec of caller p: the call was admitted, or
\* how it ended (circuit_open, result, fallback, error); what the call did,
\* and the breaker of its context before the step and after it (cbAfter)
Event(kind, p, rec, fb, cbAfter, entry) ==
    [kind |-> kind, proc |-> p, context |-> rec.context,
     policy |-> rec.policy, invoked |-> rec.invoked, sleeps |-> rec.sleeps,
     last_error |-> rec.last_error, errors |-> rec.errors,
     fb_invoked |-> fb,
     fb_arg |-> IF fb > 0 THEN rec.last_error ELSE NoCall,
     returned |-> IF kind \in {"result", "fallback"} THEN kind ELSE "none",
     raised |-> IF kind = "error" THEN Raise(rec.last_error)
                ELSE IF kind = "circuit_open" THEN CircuitOpenError
                ELSE NoErr,
     at_entry |-> entry, trial |-> rec.trial,
     state_before |-> BreakerState(circuit_breakers, rec.context),
     failures_before |-> BreakerFailures(circuit_breakers, rec.context),
     cooled |-> CooledDown(circuit_breakers, rec.context, now),
     state_after |-> BreakerState(cbAfter, rec.context),
     failures_after |-> BreakerFailures(cbAfter, rec.context),
     opened_after |-> BreakerOpenedAt(cbAfter, rec.context),
     at |-> now]

InitER ==
    /\ circuit_breakers = <<>>
    /\ now = 0
    /\ calls = [p \in Procs |-> IdleCall]
    /\ last = NoEvent
    /\ consec = [c \in Contexts |-> 0]

\* ErrorRecovery as constructed, while another component's specification runs
ParkedER == InitER

----------------------------------------------------------------------------
(* ErrorRecovery: actions *)

\* "All retries exhausted": trip the breaker, then the fallback (fb_ok: it
\* returns; otherwise it raises and is only printed) or raise last_error
Exhausted(p, rec, cb, fb_ok, entry) ==
    LET cb2 == TripCircuitBreaker(cb, rec.context, now)
        fb == rec.policy.fallback_action
    IN  /\ circuit_breakers' = cb2
        /\ calls' = [calls EXCEPT ![p] = IdleCall]
        /\ consec' = [consec EXCEPT ![rec.context] = @ + 1]
        /\ last' = Event(IF fb /\ fb_ok THEN "fallback" ELSE "error",
                         p, rec, IF fb THEN 1 ELSE 0, cb2, entry)

\* execute_with_retry from its entry to its first await: the breaker check,
\* then the first call of the operation (or, with max_attempts < 1, the
\* code after the empty loop)
ExecuteWithRetry(p, c, pol, fb_ok) ==
    /\ ~InFlight(p)
    /\ BreakerFailures(circuit_breakers, c)
          + Cardinality({q \in Procs : InFlight(q)}) < MaxFailures
    /\ fb_ok \/ (pol.fallback_action /\ pol.max_attempts < 1)
    /\ LET chk == IsCircuitOpen(circuit_breakers, c, now)
           rec == [pc |-> "awaiting", context |-> c, policy |-> pol,
                   attempt |-> 1, invoked |-> 1, sleeps |-> <<>>,
                   last_error |-> NoErr, errors |-> <<>>,
                   trial |-> /\ BreakerState(circuit_breakers, c) = "open"
                             /\ BreakerState(chk.cb, c) = "half-open"]
           rec0 == [rec EXCEPT !.attempt = 0, !.invoked = 0]
       IN  IF chk.open
           THEN /\ circuit_breakers' = chk.cb
                /\ last' = Event("circuit_open", p, rec0, 0, chk.cb, TRUE)
                /\ UNCHANGED <<calls, consec>>
           ELSE IF pol.max_attempts >= 1
           THEN /\ circuit_breakers' = chk.cb
                /\ calls' = [calls EXCEPT ![p] = rec]
                /\ last' = Event("admitted", p, rec, 0, chk.cb, TRUE)
                /\ UNCHANGED consec
           ELSE Exhausted(p, rec0, chk.cb, fb_ok, TRUE)
    /\ UNCHANGED now
    /\ UNCHANGED nonER

\* the awaited operation returns: _record_success, return result
OperationReturns(p) ==
    /\ calls[p].pc = "awaiting"
    /\ LET c == calls[p].context
           cb2 == RecordSuccess(circuit_breakers, c)
       IN  /\ circuit_breakers' = cb2
           /\ consec' = [consec EXCEPT ![c] = 0]
           /\ last' = Event("result", p, calls[p], 0, cb2, FALSE)
    /\ calls' = [calls EXCEPT ![p] = IdleCall]
    /\ UNCHANGED now
    /\ UNCHANGED nonER

\* the awaited operation raises e: abort on a category that is not
\* retryable or on the last attempt, otherwise sleep calculate_delay(attempt)
OperationRaises(p, e, fb_ok, jitter) ==
    /\ calls[p].pc = "awaiting"
    /\ fb_ok \/ calls[p].policy.fallback_action
    /\ jitter \in JitterDraws(calls[p].policy, calls[p].attempt)
    /\ LET pol == calls[p].policy
           rec == [calls[p] EXCEPT !.last_error = e,
                                   !.errors = Append(@, e)]
       IN  IF \/ ~IsRetryable(pol, e)
              \/ IsLastAttempt(pol, rec.attempt)
           THEN Exhausted(p, rec, circuit_breakers, fb_ok, FALSE)
           ELSE /\ calls' = [calls EXCEPT ![p] =
                     [rec EXCEPT !.pc = "sleeping",
                                 !.sleeps = Append(@,
                                     CalculateDelay(pol, rec.attempt, jitter))]]
                /\ last' = NoEvent
                /\ UNCHANGED <<circuit_breakers, consec>>
    /\ UNCHANGED now
    /\ UNCHANGED nonER

\* asyncio.sleep(delay) ends: the next attempt calls the operation
SleepEnds(p) ==
    /\ calls[p].pc = "sleeping"
    /\ calls' = [calls EXCEPT ![p] =
          [@ EXCEPT !.pc = "awaiting", !.attempt = @ + 1, !.invoked = @ + 1]]
    /\ last' = NoEvent
    /\ UNCHANGED <<circuit_breakers, now, consec>>
    /\ UNCHANGED nonER

\* time passes
Tick ==
    /\ now + TickStep <= MaxNow
    /\ now' = now + TickStep
    /\ last' = NoEvent
    /\ UNCHANGED <<circuit_breakers, calls, consec>>
    /\ UNCHANGED nonER

\* reset_circuit_breaker(c), called by another coroutine
ResetCircuitBreaker(c) ==
    /\ c \in DOMAIN circuit_breakers
    /\ circuit_breakers' = ResetBreaker(circuit_breakers, c)
    /\ consec' = [consec EXCEPT ![c] = 0]
    /\ last' = NoEvent
    /\ UNCHANGED <<now, calls>>
    /\ UNCHANGED nonER

\* concurrent callers
NextER ==
    \/ \E p \in Procs, c \in Contexts, pol \in ConcurrentPolicies,
          fb_ok \in BOOLEAN :
          ExecuteWithRetry(p, c, pol, fb_ok)
    \/ \E p \in Procs : OperationReturns(p)
    \/ \E p \in Procs, e \in ErrorMsgs, fb_ok \in BOOLEAN :
          OperationRaises(p, e, fb_ok, 0)
    \/ \E p \in Procs : SleepEnds(p)
    \/ Tick
    \/ \E c \in Contexts : ResetCircuitBreaker(c)

\* one caller, which makes its calls one after the other
Caller == "p1"

NextRetry ==
    \/ \E c \in Contexts, pol \in Policies, fb_ok \in BOOLEAN :
          ExecuteWithRetry(Caller, c, pol, fb_ok)
    \/ OperationReturns(Caller)
    \/ \E e \in ScheduleErrors, fb_ok \in BOOLEAN, jitter \in 0..MaxAttempts :
          OperationRaises(Caller, e, fb_ok, jitter)
    \/ SleepEnds(Caller)
    \/ Tick
    \/ \E c \in Contexts : ResetCircuitBreaker(c)

\* one caller, the policies and errors that decide how a call ends
NextOutcome ==
    \/ \E c \in Contexts, pol \in OutcomePolicies, fb_ok \in BOOLEAN :
          ExecuteWithRetry(Caller, c, pol, fb_ok)
    \/ OperationReturns(Caller)
    \/ \E e \in ErrorMsgs, fb_ok \in BOOLEAN :
          OperationRaises(Caller, e, fb_ok, 0)
    \/ SleepEnds(Caller)
    \/ Tick
    \/ \E c \in Contexts : ResetCircuitBreaker(c)

----------------------------------------------------------------------------
(* RetryPolicy.calculate_delay over its inputs *)

\* largest `attempt` calculate_delay is called with
MaxDelayAttempt == 5

\* base_delay and max_delay of the policies, in units of 1/DelayScale s
BaseDelays == {0, 1, DefaultBaseDelay, 2 * DefaultBaseDelay}
MaxDelays == {0, 30, DefaultMaxDelay}

DelayPolicies ==
    [max_attempts : {MaxAttempts},
     backoff_strategy : BackoffStrategies,
     base_delay : BaseDelays,
     max_delay : MaxDelays,
     retry_on_errors : {DefaultRetryOn},
     fallback_action : {FALSE}]

NoDelay == -1

InitDL ==
    /\ dl_policy \in DelayPolicies
    /\ dl_attempt = 0
    /\ dl_delay = NoDelay
    /\ dl_next = NoDelay

\* RetryPolicy() while the specification of another component runs
ParkedDL ==
    /\ dl_policy = CHOOSE pol \in DelayPolicies :
                       /\ pol.backoff_strategy = "exponential"
                       /\ pol.base_delay = DefaultBaseDelay
                       /\ pol.max_delay = DefaultMaxDelay
    /\ dl_attempt = 0
    /\ dl_delay = NoDelay
    /\ dl_next = NoDelay

\* calculate_delay(a) and calculate_delay(a + 1) for the next attempt a,
\* each with its own draw of random.uniform
CalculateDelays(a, j1, j2) ==
    /\ a \in 1..MaxDelayAttempt
    /\ a = dl_attempt + 1
    /\ j1 \in JitterDraws(dl_policy, a)
    /\ j2 \in JitterDraws(dl_policy, a + 1)
    /\ dl_attempt' = a
    /\ dl_delay' = CalculateDelay(dl_policy, a, j1)
    /\ dl_next' = CalculateDelay(dl_policy, a + 1, j2)
    /\ UNCHANGED dl_policy
    /\ UNCHANGED nonDL

NextDL ==
    \E a \in 1..MaxDelayAttempt :
        \E j1 \in JitterDraws(dl_policy, a),
           j2 \in JitterDraws(dl_policy, a + 1) :
            CalculateDelays(a, j1, j2)

----------------------------------------------------------------------------
(* heapq on a list of (priority, counter, task) entries.  The list holds
   its element of 0-based position i at index i + 1. *)

\* tuple comparison a < b; the counters of two entries always differ, so
\* the tasks are never compared
EntryLess(a, b) ==
    \/ a.priority < b.priority
    \/ a.priority = b.priority /\ a.counter < b.counter

\* heapq._siftdown(heap, startpos, pos) moving newitem up from pos
RECURSIVE SiftDown(_, _, _, _)
SiftDown(heap, startpos, pos, newitem) ==
    IF pos > startpos
    THEN LET parentpos == (pos - 1) \div 2
             parent == heap[parentpos + 1]
         IN  IF EntryLess(newitem, parent)
             THEN SiftDown([heap EXCEPT ![pos + 1] = parent],
                           startpos, parentpos, newitem)
             ELSE [heap EXCEPT ![pos + 1] = newitem]
    ELSE [heap EXCEPT ![pos + 1] = newitem]

\* the while loop of heapq._siftup: the smaller child moves up until a leaf
\* is reached; the list and the position of the hole
RECURSIVE SiftUpLoop(_, _)
SiftUpLoop(heap, pos) ==
    LET endpos == Len(heap)
        childpos == 2 * pos + 1
        rightpos == childpos + 1
        c == IF /\ rightpos < endpos
                /\ ~EntryLess(heap[childpos + 1], heap[rightpos + 1])
             THEN rightpos ELSE childpos
    IN  IF childpos < endpos
        THEN SiftUpLoop([heap EXCEPT ![pos + 1] = heap[c + 1]], c)
        ELSE [heap |-> heap, pos |-> pos]

\* heapq._siftup(heap, pos)
SiftUp(heap, pos) ==
    LET newitem == heap[pos + 1]
        r == SiftUpLoop(heap, pos)
    IN  SiftDown(r.heap, pos, r.pos, newitem)

\* heapq.heappush(heap, item)
HeapPush(heap, item) == SiftDown(Append(heap, item), 0, Len(heap), item)

\* heapq.heappop(heap) on a non-empty list: the item returned and the list
HeapPop(heap) ==
    LET lastelt == heap[Len(heap)]
        rest == SubSeq(heap, 1, Len(heap) - 1)
    IN  IF rest # <<>>
        THEN [item |-> rest[1],
              heap |-> SiftUp([rest EXCEPT ![1] = lastelt], 0)]
        ELSE [item |-> lastelt, heap |-> rest]

----------------------------------------------------------------------------
(* TaskQueue *)

\* the tasks pushed, and ScheduledTask.priority of each
TaskIds == {"t1", "t2"}

\* schedule_config.get("priority", 5)
DefaultPriority == 5

TaskPriority(task) == IF task = "t1" THEN DefaultPriority ELSE 1

\* the argument `priority` of push; NoPriority is None
NoPriority == -1
Priorities == {0, 1, DefaultPriority}

\* the number of pushes of a run of the model
MaxPushes == 5

\* what pop and peek return on an empty queue
NoTask == "None"

NoQueueEvent == [kind |-> "none"]

\* the entry push adds to a queue whose _counter is n, entered with a
\* negated counter
QueueEntry_Lifo(task, priority, n) ==
    [priority |-> IF priority = NoPriority THEN TaskPriority(task)
                  ELSE priority,
     counter |-> 0 - n, task |-> task]

\* the entry push adds to a queue whose _counter is n
QueueEntry(task, priority, n) ==
    [priority |-> IF priority = NoPriority THEN TaskPriority(task)
                  ELSE priority,
     counter |-> n, task |-> task]

InitTQ ==
    /\ tq_queue = <<>>
    /\ tq_counter = 0
    /\ tq_order = <<>>
    /\ tq_last = NoQueueEvent

\* TaskQueue() while the specification of another component runs
ParkedTQ == InitTQ

\* a sequence without its element at index i
RemoveAt(seq, i) == SubSeq(seq, 1, i - 1) \o SubSeq(seq, i + 1, Len(seq))

\* the index of entry e in the history of the pushes
OrderIndex(e) == CHOOSE i \in 1..Len(tq_order) : tq_order[i] = e

\* TaskQueue.push(task, priority)
push(task, priority) ==
    /\ tq_counter < MaxPushes
    /\ LET e == QueueEntry(task, priority, tq_counter)
       IN  /\ tq_queue' = HeapPush(tq_queue, e)
           /\ tq_order' = Append(tq_order, e)
           /\ tq_last' = [kind |-> "push", before |-> tq_order,
                          result |-> NoTask]
    /\ tq_counter' = tq_counter + 1
    /\ UNCHANGED nonTQ

\* TaskQueue.pop()
pop ==
    /\ IF tq_queue # <<>>
       THEN LET r == HeapPop(tq_queue)
            IN  /\ tq_queue' = r.heap
                /\ tq_order' = RemoveAt(tq_order, OrderIndex(r.item))
                /\ tq_last' = [kind |-> "pop", before |-> tq_order,
                               result |-> r.item.task]
       ELSE /\ tq_last' = [kind |-> "pop", before |-> tq_order,
                           result |-> NoTask]
            /\ UNCHANGED <<tq_queue, tq_order>>
    /\ UNCHANGED tq_counter
    /\ UNCHANGED nonTQ

\* TaskQueue.clear()
clear ==
    /\ tq_queue # <<>>
    /\ tq_queue' = <<>>
    /\ tq_order' = <<>>
    /\ tq_last' = [kind |-> "clear", before |-> tq_order, result |-> NoTask]
    /\ UNCHANGED tq_counter
    /\ UNCHANGED nonTQ

NextTQ ==
    \/ \E task \in TaskIds, priority \in Priorities \cup {NoPriority} :
          push(task, priority)
    \/ pop
    \/ clear

----------------------------------------------------------------------------
(* ScheduledTask.  The clock counts check_intervals: a reading is the time
   of the latest wake-up of the loop that was due.  The scheduler of the
   model is built with check_interval = 60 s, so a minute is 1 unit. *)

\* TaskScheduler.check_interval, and a minute, in clock units
CheckInterval == 1
Minute == CheckInterval

\* the last reading of the clock
MaxClock == 2

\* largest max_concurrent the scheduler is built with
MaxConcurrent == 2

\* max_runs = None
NoMaxRuns == 0

\* schedule_type, schedule_config and max_runs of the tasks added: once
\* (with and without "datetime"), interval ("interval_seconds"), cron
\* (minute and hour "*"), conditional
ScheduleShapes ==
    {[schedule_type |-> "once", datetime |-> NoTime, interval |-> 0,
      max_runs |-> NoMaxRuns],
     [schedule_type |-> "once", datetime |-> CheckInterval, interval |-> 0,
      max_runs |-> NoMaxRuns],
     [schedule_type |-> "interval", datetime |-> NoTime,
      interval |-> CheckInterval, max_runs |-> NoMaxRuns],
     [schedule_type |-> "cron", datetime |-> NoTime, interval |-> 0,
      max_runs |-> 1],
     [schedule_type |-> "conditional", datetime |-> NoTime, interval |-> 0,
      max_runs |-> NoMaxRuns],
     [schedule_type |-> "conditional", datetime |-> NoTime, interval |-> 0,
      max_runs |-> 2]}

\* ScheduledTask.__init__
NewTask(task, shape) ==
    [schedule_type |-> shape.schedule_type, datetime |-> shape.datetime,
     interval |-> shape.interval, enabled |-> TRUE,
     max_runs |-> shape.max_runs,
     run_count |-> 0, last_run |-> NoTime, next_run |-> NoTime,
     priority |-> TaskPriority(task)]

\* should_run without the max_runs test
ShouldRun_NoMaxRuns(task, t) ==
    /\ task.enabled
    /\ task.next_run = NoTime \/ t >= task.next_run

\* ScheduledTask.should_run at clock reading t
ShouldRun(task, t) ==
    /\ task.enabled
    /\ ~(task.max_runs # NoMaxRuns /\ task.run_count >= task.max_runs)
    /\ task.next_run = NoTime \/ t >= task.next_run

\* ScheduledTask.calculate_next_run at clock reading t: the new next_run
NextRunOf(task, t) ==
    IF task.schedule_type = "once"
    THEN IF task.run_count = 0
         THEN IF task.datetime # NoTime THEN task.datetime ELSE t
         ELSE NoTime
    ELSE IF task.schedule_type = "interval"
    THEN IF task.last_run # NoTime
         THEN task.last_run + task.interval
         ELSE t + task.interval
    ELSE IF task.schedule_type = "cron" THEN t + Minute
    ELSE IF task.schedule_type = "conditional" THEN t
    ELSE task.next_run

CalculateNextRun(task, t) == [task EXCEPT !.next_run = NextRunOf(task, t)]

\* a dict without key k
Without(f, k) == [x \in DOMAIN f \ {k} |-> f[x]]

----------------------------------------------------------------------------
(* TaskScheduler *)

NoSchedEvent == [kind |-> "none"]

InitTS ==
    /\ task_objs = <<>>
    /\ scheduled_tasks = <<>>
    /\ running_tasks = <<>>
    /\ max_concurrent \in 1..MaxConcurrent
    /\ ts_execs = <<>>
    /\ ts_nexec = 0
    /\ ts_loop = "idle"
    /\ ts_wake = 0
    /\ ts_now = 0
    /\ ts_launches = [task \in TaskIds |-> 0]
    /\ ts_reached = {}
    /\ ts_freed = FALSE
    /\ ts_last = NoSchedEvent

\* TaskScheduler(executor) while the specification of another component runs
ParkedTS ==
    /\ task_objs = <<>>
    /\ scheduled_tasks = <<>>
    /\ running_tasks = <<>>
    /\ max_concurrent = 1
    /\ ts_execs = <<>>
    /\ ts_nexec = 0
    /\ ts_loop = "idle"
    /\ ts_wake = 0
    /\ ts_now = 0
    /\ ts_launches = [task \in TaskIds |-> 0]
    /\ ts_reached = {}
    /\ ts_freed = FALSE
    /\ ts_last = NoSchedEvent

\* the for loop of _scheduler_loop over list(scheduled_tasks.values()): each
\* task that should run is pushed and its next_run recalculated
RECURSIVE CheckTasks(_, _)
CheckTasks(ids, st) ==
    IF ids = <<>> THEN st
    ELSE LET task == Head(ids)
             obj == st.objs[task]
             e == QueueEntry(task, NoPriority, st.counter)
         IN  IF ShouldRun(obj, ts_now)
             THEN CheckTasks(Tail(ids),
                    [objs |-> [st.objs EXCEPT
                                  ![task] = CalculateNextRun(obj, ts_now)],
                     queue |-> HeapPush(st.queue, e),
                     counter |-> st.counter + 1,
                     order |-> Append(st.order, e)])
             ELSE CheckTasks(Tail(ids), st)

\* the while loop of _scheduler_loop: pop and _execute_scheduled_task while
\* the queue is not empty and len(running_tasks) < max_concurrent
RECURSIVE Drain(_)
Drain(st) ==
    IF Len(st.queue) > 0 /\ Cardinality(DOMAIN st.running) < max_concurrent
    THEN LET r == HeapPop(st.queue)
             task == r.item.task
             x == st.nexec + 1
         IN  Drain([queue |-> r.heap,
                    order |-> RemoveAt(st.order,
                                CHOOSE i \in 1..Len(st.order) :
                                    st.order[i] = r.item),
                    running |-> (task :> x) @@ Without(st.running, task),
                    execs |-> (x :> [task |-> task, phase |-> "created"])
                                 @@ st.execs,
                    nexec |-> x,
                    launches |-> [st.launches EXCEPT ![task] = @ + 1]])
    ELSE st

\* the finally block of run() for an execution of `task` that raised and
\* left the block undone
FinishRun_ErrorEscapes(objs, running, task, ok) ==
    IF ok
    THEN [running |-> Without(running, task),
          objs |-> IF objs[task].enabled
                   THEN [objs EXCEPT
                           ![task] = CalculateNextRun(@, ts_now)]
                   ELSE objs]
    ELSE [running |-> running, objs |-> objs]

\* the except and finally blocks of run() for an execution of `task`; ok:
\* the workflow executor returned
FinishRun(objs, running, task, ok) ==
    [running |-> Without(running, task),
     objs |-> IF objs[task].enabled
              THEN [objs EXCEPT ![task] = CalculateNextRun(@, ts_now)]
              ELSE objs]

----------------------------------------------------------------------------
(* TaskScheduler: actions *)

\* a run() coroutine created and not yet started
Created == {x \in DOMAIN ts_execs : ts_execs[x].phase = "created"}

\* add_scheduled_task of a new ScheduledTask, before the loop first runs
add_scheduled_task(task, shape) ==
    /\ task \notin DOMAIN task_objs
    /\ ts_loop = "idle" /\ ts_now = 0
    /\ task_objs' = (task :> CalculateNextRun(NewTask(task, shape), ts_now))
                        @@ task_objs
    /\ scheduled_tasks' = Append(scheduled_tasks, task)
    /\ ts_last' = NoSchedEvent
    /\ UNCHANGED <<running_tasks, max_concurrent, ts_execs, ts_nexec, ts_loop,
                   ts_wake, ts_now, ts_launches, ts_reached, ts_freed>>
    /\ UNCHANGED <<tqVars, nonTS>>

\* the ids in scheduled_tasks
Scheduled == {scheduled_tasks[i] : i \in 1..Len(scheduled_tasks)}

\* enable_task
enable_task(task) ==
    /\ task \in Scheduled
    /\ task_objs' = [task_objs EXCEPT
          ![task] = CalculateNextRun([@ EXCEPT !.enabled = TRUE], ts_now)]
    /\ ts_last' = NoSchedEvent
    /\ UNCHANGED <<scheduled_tasks, running_tasks, max_concurrent, ts_execs,
                   ts_nexec, ts_loop, ts_wake, ts_now, ts_launches,
                   ts_reached, ts_freed>>
    /\ UNCHANGED <<tqVars, nonTS>>

\* disable_task
disable_task(task) ==
    /\ task \in Scheduled
    /\ task_objs[task].enabled
    /\ task_objs' = [task_objs EXCEPT ![task].enabled = FALSE]
    /\ ts_last' = NoSchedEvent
    /\ UNCHANGED <<scheduled_tasks, running_tasks, max_concurrent, ts_execs,
                   ts_nexec, ts_loop, ts_wake, ts_now, ts_launches,
                   ts_reached, ts_freed>>
    /\ UNCHANGED <<tqVars, nonTS>>

\* remove_scheduled_task: the entry leaves the dict, the ScheduledTask
\* object lives on where the queue or a run() still refers to it
remove_scheduled_task(task) ==
    /\ task \in Scheduled
    /\ scheduled_tasks' = SelectSeq(scheduled_tasks, LAMBDA x : x # task)
    /\ ts_last' = NoSchedEvent
    /\ UNCHANGED <<task_objs, running_tasks, max_concurrent, ts_execs,
                   ts_nexec, ts_loop, ts_wake, ts_now, ts_launches,
                   ts_reached, ts_freed>>
    /\ UNCHANGED <<tqVars, nonTS>>

\* start: the loop is created and runs its first iteration at once
start ==
    /\ ts_loop = "idle"
    /\ ts_now = 0
    /\ ts_loop' = "sleeping"
    /\ ts_wake' = ts_now
    /\ ts_last' = NoSchedEvent
    /\ UNCHANGED <<task_objs, scheduled_tasks, running_tasks, max_concurrent,
                   ts_execs, ts_nexec, ts_now, ts_launches, ts_reached,
                   ts_freed>>
    /\ UNCHANGED <<tqVars, nonTS>>

\* one iteration of _scheduler_loop, from the end of its sleep to the next
\* sleep; the coroutines created earlier have started by then
SchedulerTick ==
    /\ ts_loop = "sleeping"
    /\ ts_now = ts_wake
    /\ Created = {}
    /\ LET st1 == CheckTasks(scheduled_tasks,
                     [objs |-> task_objs, queue |-> tq_queue,
                      counter |-> tq_counter, order |-> tq_order])
           st2 == Drain([queue |-> st1.queue, order |-> st1.order,
                         running |-> running_tasks, execs |-> ts_execs,
                         nexec |-> ts_nexec, launches |-> ts_launches])
       IN  /\ task_objs' = st1.objs
           /\ tq_counter' = st1.counter
           /\ tq_queue' = st2.queue
           /\ tq_order' = st2.order
           /\ running_tasks' = st2.running
           /\ ts_execs' = st2.execs
           /\ ts_nexec' = st2.nexec
           /\ ts_launches' = st2.launches
           /\ ts_last' = [kind |-> "tick", starved |-> ts_freed,
                          launched |-> st2.nexec - ts_nexec]
    /\ ts_wake' = ts_now + CheckInterval
    /\ ts_freed' = FALSE
    /\ UNCHANGED <<scheduled_tasks, max_concurrent, ts_loop, ts_now,
                   ts_reached, tq_last>>
    /\ UNCHANGED nonTS

\* run() starts: run_count += 1, last_run = now, the executor is awaited
RunStart(x) ==
    /\ x \in Created
    /\ LET task == ts_execs[x].task
           n == task_objs[task].run_count + 1
       IN  /\ task_objs' = [task_objs EXCEPT ![task].run_count = n,
                                             ![task].last_run = ts_now]
           /\ ts_reached' = IF n = task_objs[task].max_runs
                            THEN ts_reached \cup {task} ELSE ts_reached
    /\ ts_execs' = [ts_execs EXCEPT ![x].phase = "awaiting"]
    /\ ts_last' = NoSchedEvent
    /\ UNCHANGED <<scheduled_tasks, running_tasks, max_concurrent, ts_nexec,
                   ts_loop, ts_wake, ts_now, ts_launches, ts_freed>>
    /\ UNCHANGED <<tqVars, nonTS>>

\* the workflow executor returns (ok) or raises: except, finally
RunEnd(x, ok) ==
    /\ x \in DOMAIN ts_execs
    /\ ts_execs[x].phase = "awaiting"
    /\ LET task == ts_execs[x].task
           r == FinishRun(task_objs, running_tasks, task, ok)
       IN  /\ task_objs' = r.objs
           /\ running_tasks' = r.running
           /\ ts_freed' = \/ ts_freed
                          \/ /\ Len(tq_queue) > 0
                             /\ Cardinality(DOMAIN r.running) < max_concurrent
                             /\ ts_loop = "sleeping"
           /\ ts_last' = [kind |-> "finish", ok |-> ok, task |-> task,
                          objs_before |-> task_objs,
                          running_before |-> running_tasks,
                          loop_before |-> <<ts_loop, ts_wake>>,
                          at |-> ts_now]
    /\ ts_execs' = Without(ts_execs, x)
    /\ UNCHANGED <<scheduled_tasks, max_concurrent, ts_nexec, ts_loop,
                   ts_wake, ts_now, ts_launches, ts_reached>>
    /\ UNCHANGED <<tqVars, nonTS>>

\* time passes; the loop, when it sleeps, wakes when its sleep ends, and a
\* coroutine just created starts before any time passes
AdvanceClock ==
    /\ ts_now < MaxClock
    /\ ts_loop = "sleeping" => ts_now < ts_wake
    /\ Created = {}
    /\ ts_now' = ts_now + 1
    /\ ts_last' = NoSchedEvent
    /\ UNCHANGED <<task_objs, scheduled_tasks, running_tasks, max_concurrent,
                   ts_execs, ts_nexec, ts_loop, ts_wake, ts_launches,
                   ts_reached, ts_freed>>
    /\ UNCHANGED <<tqVars, nonTS>>

\* two tasks of any shape, left as they were added
NextTS ==
    \/ \E task \in TaskIds, shape \in ScheduleShapes :
          add_scheduled_task(task, shape)
    \/ start
    \/ SchedulerTick
    \/ \E x \in 1..ts_nexec : RunStart(x)
    \/ \E x \in 1..ts_nexec, ok \in BOOLEAN : RunEnd(x, ok)
    \/ AdvanceClock

\* the task that is enabled and disabled while the scheduler runs, and the
\* task that runs beside it at every tick
ToggledTask == "t1"
OtherTask == "t2"
OtherShapes ==
    {s \in ScheduleShapes :
        s.schedule_type = "conditional" /\ s.max_runs = NoMaxRuns}

NextToggle ==
    \/ \E shape \in ScheduleShapes : add_scheduled_task(ToggledTask, shape)
    \/ \E shape \in OtherShapes : add_scheduled_task(OtherTask, shape)
    \/ enable_task(ToggledTask)
    \/ disable_task(ToggledTask)
    \/ remove_scheduled_task(ToggledTask)
    \/ start
    \/ SchedulerTick
    \/ \E x \in 1..ts_nexec : RunStart(x)
    \/ \E x \in 1..ts_nexec, ok \in BOOLEAN : RunEnd(x, ok)
    \/ AdvanceClock

----------------------------------------------------------------------------
(* RulesEngine.  Conditions read the one context field "cpu" with source
   "context"; its value is a small integer, or None when the key is absent. *)

\* largest number of evaluate_all_rules calls
MaxEvals == 2

\* the rules of the model, in the order they are added
RuleOrder == <<"r1", "r2">>

RuleIds == {RuleOrder[i] : i \in 1..Len(RuleOrder)}

\* None: what dict.get returns for an absent key
NoValue == -1

\* values of the context field
CpuValues == {0, 2}

\* Rule.priority: the constructor's default and a more urgent one
DefaultRulePriority == 5
RulePriorities == {1, DefaultRulePriority}

\* conditions: {"field": "cpu", "operator": op, "value": v}; "~" is no
\* operator of RuleOperator
CondGT1 == [operator |-> ">", value |-> 1]
CondEQ2 == [operator |-> "==", value |-> 2]
CondNE0 == [operator |-> "!=", value |-> 0]
CondBad == [operator |-> "~", value |-> 0]

ConditionLists ==
    {<<>>, <<CondNE0, CondGT1>>, <<CondBad, CondEQ2>>}

\* Rule.actions
ActionLists == {<<"a1">>, <<"a1", "a2">>}

\* Rule.__init__
NewRule(conditions, actions, priority) ==
    [conditions |-> conditions, actions |-> actions, enabled |-> TRUE,
     priority |-> priority, evaluation_count |-> 0, trigger_count |-> 0]

\* _evaluate_operator; an ordering comparison of None with a number raises
\* TypeError, which the except branch turns into False
EvaluateOperator(actual, operator, expected) ==
    IF operator = "==" THEN actual = expected
    ELSE IF operator = "!=" THEN actual # expected
    ELSE IF operator = ">" THEN actual # NoValue /\ actual > expected
    ELSE IF operator = ">=" THEN actual # NoValue /\ actual >= expected
    ELSE IF operator = "<" THEN actual # NoValue /\ actual < expected
    ELSE IF operator = "<=" THEN actual # NoValue /\ actual <= expected
    ELSE FALSE

\* evaluate_condition with source "context": _get_nested_value, then the
\* operator
EvaluateCondition(condition, context) ==
    EvaluateOperator(context, condition.operator, condition.value)

\* the for loop of evaluate_rule over conditions[k..]: the value returned
\* and the number of conditions evaluated
RECURSIVE EvaluateConditions(_, _, _)
EvaluateConditions(conditions, context, n) ==
    IF conditions = <<>> THEN [result |-> TRUE, evaluated |-> n]
    ELSE IF ~EvaluateCondition(Head(conditions), context)
    THEN [result |-> FALSE, evaluated |-> n + 1]
    ELSE EvaluateConditions(Tail(conditions), context, n + 1)

\* evaluate_rule that tests every condition before it answers
EvaluateRule_NoShortCircuit(rule, context) ==
    IF ~rule.enabled THEN [result |-> FALSE, evaluated |-> 0]
    ELSE [result |-> \A i \in 1..Len(rule.conditions) :
                        EvaluateCondition(rule.conditions[i], context),
          evaluated |-> Len(rule.conditions)]

\* evaluate_rule
EvaluateRule(rule, context) ==
    IF ~rule.enabled THEN [result |-> FALSE, evaluated |-> 0]
    ELSE EvaluateConditions(rule.conditions, context, 0)

\* list.sort(key=priority) is stable: ids sorted by priority, ties in the
\* order of the list
RECURSIVE InsertByPriority(_, _, _)
InsertByPriority(sorted, id, rules) ==
    IF sorted = <<>> THEN <<id>>
    ELSE IF rules[Head(sorted)].priority <= rules[id].priority
    THEN <<Head(sorted)>> \o InsertByPriority(Tail(sorted), id, rules)
    ELSE <<id>> \o sorted

RECURSIVE SortByPriority(_, _)
SortByPriority(ids, rules) ==
    IF ids = <<>> THEN <<>>
    ELSE InsertByPriority(SortByPriority(SubSeq(ids, 1, Len(ids) - 1), rules),
                          ids[Len(ids)], rules)

\* enabled_rules of evaluate_all_rules, in the order of the sort as given
EnabledRules_DictOrder(order, rules) ==
    SelectSeq(order, LAMBDA id : rules[id].enabled)

\* enabled_rules of evaluate_all_rules after its sort
EnabledRules(order, rules) ==
    SortByPriority(SelectSeq(order, LAMBDA id : rules[id].enabled), rules)

\* "Execute actions": the for loop over rule.actions inside one try; bad
\* holds the (rule, index) pairs for which action_executor raises.  The
\* invocations made, in order.
RECURSIVE ExecuteActions(_, _, _, _)
ExecuteActions(id, actions, k, bad) ==
    IF k > Len(actions) THEN <<>>
    ELSE IF <<id, k>> \in bad
    THEN <<[rule |-> id, index |-> k, action |-> actions[k],
            raised |-> TRUE]>>
    ELSE <<[rule |-> id, index |-> k, action |-> actions[k],
            raised |-> FALSE]>>
         \o ExecuteActions(id, actions, k + 1, bad)

\* the for loop of evaluate_all_rules over enabled_rules
RECURSIVE EvaluateLoop(_, _, _, _, _)
EvaluateLoop(ids, st, context, executor, bad) ==
    IF ids = <<>> THEN st
    ELSE LET id == Head(ids)
             rule == [st.rules[id] EXCEPT !.evaluation_count = @ + 1]
             r == EvaluateRule(rule, context)
             ev == Append(st.evals, [rule |-> id, result |-> r.result,
                                     evaluated |-> r.evaluated])
         IN  IF r.result
             THEN EvaluateLoop(Tail(ids),
                    [rules |-> [st.rules EXCEPT ![id] =
                                  [rule EXCEPT !.trigger_count = @ + 1]],
                     evals |-> ev,
                     triggered |-> Append(st.triggered, id),
                     log |-> IF executor
                             THEN st.log \o ExecuteActions(id, rule.actions,
                                                           1, bad)
                             ELSE st.log],
                    context, executor, bad)
             ELSE EvaluateLoop(Tail(ids),
                    [st EXCEPT !.rules[id] = rule, !.evals = ev],
                    context, executor, bad)

NoRuleEvent == [kind |-> "none"]

\* RulesEngine(action_executor), with or without an executor
InitRE ==
    /\ re_rules = <<>>
    /\ re_order = <<>>
    /\ re_context = NoValue
    /\ re_executor \in BOOLEAN
    /\ re_evals = 0
    /\ re_last = NoRuleEvent

\* RulesEngine() while the specification of another component runs
ParkedRE ==
    /\ re_rules = <<>>
    /\ re_order = <<>>
    /\ re_context = NoValue
    /\ re_executor = FALSE
    /\ re_evals = 0
    /\ re_last = NoRuleEvent

----------------------------------------------------------------------------
(* RulesEngine: actions *)

\* add_rule of a new Rule; the rules of the model are added in the order of
\* their ids
add_rule(id, conditions, actions, priority) ==
    /\ Len(re_order) < Len(RuleOrder)
    /\ id = RuleOrder[Len(re_order) + 1]
    /\ re_evals = 0
    /\ re_rules' = (id :> NewRule(conditions, actions, priority)) @@ re_rules
    /\ re_order' = Append(re_order, id)
    /\ re_last' = NoRuleEvent
    /\ UNCHANGED <<re_context, re_executor, re_evals>>
    /\ UNCHANGED nonRE

enable_rule(id) ==
    /\ id \in DOMAIN re_rules
    /\ ~re_rules[id].enabled
    /\ re_rules' = [re_rules EXCEPT ![id].enabled = TRUE]
    /\ re_last' = NoRuleEvent
    /\ UNCHANGED <<re_order, re_context, re_executor, re_evals>>
    /\ UNCHANGED nonRE

disable_rule(id) ==
    /\ id \in DOMAIN re_rules
    /\ re_rules[id].enabled
    /\ re_rules' = [re_rules EXCEPT ![id].enabled = FALSE]
    /\ re_last' = NoRuleEvent
    /\ UNCHANGED <<re_order, re_context, re_executor, re_evals>>
    /\ UNCHANGED nonRE

\* update_context({"cpu": v})
update_context(v) ==
    /\ re_context # v
    /\ re_context' = v
    /\ re_last' = NoRuleEvent
    /\ UNCHANGED <<re_rules, re_order, re_executor, re_evals>>
    /\ UNCHANGED nonRE

\* evaluate_rule(rule, self.context) called on its own
evaluate_rule(id) ==
    /\ id \in DOMAIN re_rules
    /\ LET r == EvaluateRule(re_rules[id], re_context)
       IN  re_last' = [kind |-> "rule", rule |-> id, result |-> r.result,
                       evaluated |-> r.evaluated]
    /\ UNCHANGED <<re_rules, re_order, re_context, re_executor, re_evals>>
    /\ UNCHANGED nonRE

\* the action_executor calls evaluate_all_rules can make: (rule, index)
Invocable ==
    IF re_executor
    THEN UNION {{<<id, k>> : k \in 1..Len(re_rules[id].actions)} :
                  id \in {x \in DOMAIN re_rules : re_rules[x].enabled}}
    ELSE {}

\* evaluate_all_rules(event_context); event is the "cpu" of event_context or
\* None when it has none
evaluate_all_rules(event, bad) ==
    /\ re_evals < MaxEvals
    /\ re_order # <<>>
    /\ LET full == IF event # NoValue THEN event ELSE re_context
           ids == EnabledRules(re_order, re_rules)
           st == EvaluateLoop(ids, [rules |-> re_rules, evals |-> <<>>,
                                    triggered |-> <<>>, log |-> <<>>],
                              full, re_executor, bad)
       IN  /\ re_rules' = st.rules
           /\ re_last' = [kind |-> "all", before |-> re_rules,
                          evals |-> st.evals, triggered |-> st.triggered,
                          log |-> st.log, context |-> full]
    /\ re_evals' = re_evals + 1
    /\ UNCHANGED <<re_order, re_context, re_executor>>
    /\ UNCHANGED nonRE

NextRE ==
    \/ \E id \in RuleIds, conditions \in ConditionLists,
          actions \in ActionLists, priority \in RulePriorities :
          add_rule(id, conditions, actions, priority)
    \/ \E id \in RuleIds : enable_rule(id)
    \/ \E id \in RuleIds : disable_rule(id)
    \/ \E v \in CpuValues : update_context(v)
    \/ \E id \in RuleIds : evaluate_rule(id)
    \/ \E event \in CpuValues \cup {NoValue},
          bad \in SUBSET Invocable :
          evaluate_all_rules(event, bad)

----------------------------------------------------------------------------
(* AgentOrchestrator: registry, statistics and routing.  A task text is
   modelled by the keyword groups of select_best_agent it contains; of the
   fields of an agent_stats entry the two task counters are kept. *)

\* largest number of execute_task calls, of register_agent calls (each makes
\* one asyncio.Queue) and of messages sent
MaxTasks == 2
MaxQueues == 2
MaxSent == 2

\* names agents are registered under; "system" is routed to and never
\* registered
AgentNames == {"email", "web", "helper"}

\* the agent instance registered under a name: an object with a run method,
\* a callable, an object that is neither
AgentKind(name) ==
    IF name = "email" THEN "run"
    ELSE IF name = "web" THEN "callable" ELSE "object"

\* None as an agent name
NoAgent == "None"

\* the coroutines that call receive_message
Receivers == {"c1", "c2"}

\* the keyword groups of select_best_agent, in the order they are tested,
\* each with the name it routes to
KeywordGroups == <<"email", "web", "system">>

\* task texts: the keyword groups a text contains
Tasks == {{}, {"email"}, {"web"}, {"system"}, {"email", "web"}}

SeqToSet(s) == {s[i] : i \in 1..Len(s)}

\* the load of select_best_agent for a name with an agent_stats entry
Load(stats, name) == stats[name].tasks_completed + stats[name].tasks_failed

\* min(agent_loads, key=agent_loads.get): the first key, in dict order, with
\* the smallest load
MinLoaded(names, stats) ==
    LET i == CHOOSE i \in 1..Len(names) :
                /\ \A j \in 1..Len(names) :
                      Load(stats, names[i]) <= Load(stats, names[j])
                /\ \A j \in 1..(i - 1) :
                      Load(stats, names[j]) > Load(stats, names[i])
    IN  names[i]

\* the keyword routing of select_best_agent from group k on: the name of the
\* first group the text contains, or None when it contains none
RECURSIVE KeywordRoute(_, _)
KeywordRoute(task, k) ==
    IF k > Len(KeywordGroups) THEN NoAgent
    ELSE IF KeywordGroups[k] \in task THEN KeywordGroups[k]
    ELSE KeywordRoute(task, k + 1)

\* select_best_agent; preferred is context["preferred_agent"], None when the
\* context has no such key; stats_order is the dict order of agent_stats
SelectBestAgent(task, preferred, agents, stats_order, stats) ==
    IF preferred # NoAgent /\ preferred \in SeqToSet(agents) THEN preferred
    ELSE IF KeywordRoute(task, 1) # NoAgent
    THEN IF KeywordRoute(task, 1) \in SeqToSet(agents)
         THEN KeywordRoute(task, 1) ELSE NoAgent
    ELSE IF agents # <<>>
    THEN LET loaded == SelectSeq(stats_order,
                                 LAMBDA n : n \in SeqToSet(agents))
         IN  IF loaded # <<>> THEN MinLoaded(loaded, stats) ELSE agents[1]
    ELSE NoAgent

\* the entry agent_stats[name], made by the defaultdict when absent
StatsEntry(stats, name) ==
    IF name \in DOMAIN stats THEN stats[name]
    ELSE [tasks_completed |-> 0, tasks_failed |-> 0]

\* execute_task that lets the exception of the agent call through
ExecuteTask_NoCatch(st, task, preferred, agent_name, throws) ==
    LET name == IF agent_name = NoAgent
                THEN SelectBestAgent(task, preferred, st.agents, st.order,
                                     st.stats)
                ELSE agent_name
        entry == StatsEntry(st.stats, name)
        threw == throws /\ AgentKind(name) # "object"
    IN  IF name = NoAgent \/ name \notin SeqToSet(st.agents)
        THEN [st EXCEPT !.res = [success |-> FALSE, agent |-> NoAgent,
                                 error |-> "No capable agent available",
                                 dispatched |-> FALSE, threw |-> FALSE,
                                 raised |-> FALSE]]
        ELSE [agents |-> st.agents,
              order |-> IF name \in DOMAIN st.stats THEN st.order
                        ELSE Append(st.order, name),
              stats |-> (name :> [entry EXCEPT
                                    !.tasks_completed =
                                        IF threw THEN @ ELSE @ + 1])
                        @@ st.stats,
              res |-> [success |-> ~threw, agent |-> name,
                       error |-> "none",
                       dispatched |-> TRUE, threw |-> threw,
                       raised |-> threw]]

\* execute_task(task, context, agent_name) on the registry and statistics
\* st; throws: the agent call raises.  res is the dict returned, with what
\* happened on the way
ExecuteTask(st, task, preferred, agent_name, throws) ==
    LET name == IF agent_name = NoAgent
                THEN SelectBestAgent(task, preferred, st.agents, st.order,
                                     st.stats)
                ELSE agent_name
        entry == StatsEntry(st.stats, name)
        threw == throws /\ AgentKind(name) # "object"
    IN  IF name = NoAgent \/ name \notin SeqToSet(st.agents)
        THEN [st EXCEPT !.res = [success |-> FALSE, agent |-> NoAgent,
                                 error |-> "No capable agent available",
                                 dispatched |-> FALSE, threw |-> FALSE,
                                 raised |-> FALSE]]
        ELSE [agents |-> st.agents,
              order |-> IF name \in DOMAIN st.stats THEN st.order
                        ELSE Append(st.order, name),
              stats |-> (name :> IF threw
                                 THEN [entry EXCEPT !.tasks_failed = @ + 1]
                                 ELSE [entry EXCEPT !.tasks_completed = @ + 1])
                        @@ st.stats,
              res |-> [success |-> ~threw, agent |-> name,
                       error |-> IF threw THEN "str(e)" ELSE "none",
                       dispatched |-> TRUE, threw |-> threw,
                       raised |-> FALSE]]

\* the execute_task calls of coordinate_agents for agents_needed[k..], one
\* after the other; throws[k]: the agent call of the k-th raises.  results
\* is the dict keyed by agent name, calls the results in call order
RECURSIVE CoordinateCalls(_, _, _, _)
CoordinateCalls(st, agents_needed, throws, k) ==
    IF k > Len(agents_needed) THEN st
    ELSE LET r == ExecuteTask([agents |-> st.agents, order |-> st.order,
                               stats |-> st.stats, res |-> <<>>],
                              {}, NoAgent, agents_needed[k], throws[k])
         IN  CoordinateCalls(
                [agents |-> r.agents, order |-> r.order, stats |-> r.stats,
                 results |-> (agents_needed[k] :> r.res.success)
                                @@ st.results,
                 calls |-> Append(st.calls, r.res.success)],
                agents_needed, throws, k + 1)

\* the "success" of the dict coordinate_agents returns: all() over
\* results.values()
AggregateSuccess(res) == \A n \in DOMAIN res : res[n]

\* coordination_strategy: the three the code knows
Strategies == {"sequential", "parallel", "pipeline"}

\* lists of agent names given to coordinate_agents; the lists of two are
\* over an agent with a run method and one that is not callable
AgentLists ==
    {<<>>} \cup {<<a>> : a \in AgentNames}
           \cup {<<a, b>> : a \in {"email", "helper"},
                            b \in {"email", "helper"}}

NoOrchEvent == [kind |-> "none"]

\* AgentOrchestrator()
InitOR ==
    /\ or_agents = <<>>
    /\ or_stats = <<>>
    /\ or_stats_order = <<>>
    /\ or_queues = <<>>
    /\ or_mail = <<>>
    /\ or_sent = <<>>
    /\ or_recv = <<>>
    /\ or_waiting = [r \in Receivers |-> 0]
    /\ or_nsent = 0
    /\ or_tasks = 0
    /\ or_last = NoOrchEvent

ParkedOR == InitOR

----------------------------------------------------------------------------
(* AgentOrchestrator: actions *)

\* register_agent: the name goes to the end of the dicts unless it is a key
\* already; its mailbox is a new asyncio.Queue
register_agent(name) ==
    /\ Len(or_mail) < MaxQueues
    /\ or_agents' = IF name \in SeqToSet(or_agents) THEN or_agents
                    ELSE Append(or_agents, name)
    /\ or_queues' = (name :> (Len(or_mail) + 1)) @@ or_queues
    /\ or_mail' = Append(or_mail, <<>>)
    /\ or_sent' = Append(or_sent, <<>>)
    /\ or_recv' = Append(or_recv, <<>>)
    /\ or_last' = NoOrchEvent
    /\ UNCHANGED <<or_stats, or_stats_order, or_waiting, or_nsent, or_tasks>>
    /\ UNCHANGED nonOR

\* unregister_agent
unregister_agent(name) ==
    /\ name \in SeqToSet(or_agents)
    /\ or_agents' = SelectSeq(or_agents, LAMBDA n : n # name)
    /\ or_queues' = [n \in DOMAIN or_queues \ {name} |-> or_queues[n]]
    /\ or_last' = NoOrchEvent
    /\ UNCHANGED <<or_stats, or_stats_order, or_mail, or_sent, or_recv,
                   or_waiting, or_nsent, or_tasks>>
    /\ UNCHANGED nonOR

\* select_best_agent(task, context) called on its own
select_best_agent(task, preferred) ==
    /\ or_last' = [kind |-> "select", task |-> task, preferred |-> preferred,
                   result |-> SelectBestAgent(task, preferred, or_agents,
                                              or_stats_order, or_stats)]
    /\ UNCHANGED <<or_agents, or_stats, or_stats_order, or_queues, or_mail,
                   or_sent, or_recv, or_waiting, or_nsent, or_tasks>>
    /\ UNCHANGED nonOR

\* execute_task(task, context, agent_name); it has no suspension point
execute_task(task, preferred, agent_name, throws) ==
    /\ or_tasks < MaxTasks
    /\ LET r == ExecuteTask([agents |-> or_agents, order |-> or_stats_order,
                             stats |-> or_stats, res |-> <<>>],
                            task, preferred, agent_name, throws)
       IN  /\ or_stats' = r.stats
           /\ or_stats_order' = r.order
           /\ or_last' = [kind |-> "execute", res |-> r.res,
                          before |-> or_stats]
    /\ or_tasks' = or_tasks + 1
    /\ UNCHANGED <<or_agents, or_queues, or_mail, or_sent, or_recv,
                   or_waiting, or_nsent>>
    /\ UNCHANGED nonOR

\* coordinate_agents(task, agents_needed, strategy): its execute_task calls
\* run one after the other with nothing between them (awaited in turn, or
\* gathered, each without a suspension point)
coordinate_agents(agents_needed, strategy, throws) ==
    /\ or_tasks + Len(agents_needed) <= MaxTasks
    /\ LET st == CoordinateCalls(
                    [agents |-> or_agents, order |-> or_stats_order,
                     stats |-> or_stats, results |-> <<>>, calls |-> <<>>],
                    IF strategy \in Strategies THEN agents_needed ELSE <<>>,
                    throws, 1)
       IN  /\ or_stats' = st.stats
           /\ or_stats_order' = st.order
           /\ or_tasks' = or_tasks + Len(st.calls)
           /\ or_last' = [kind |-> "coordinate", strategy |-> strategy,
                          agents |-> agents_needed, calls |-> st.calls,
                          success |-> AggregateSuccess(st.results)]
    /\ UNCHANGED <<or_agents, or_queues, or_mail, or_sent, or_recv,
                   or_waiting, or_nsent>>
    /\ UNCHANGED nonOR

NextOrch ==
    \/ \E name \in AgentNames : register_agent(name)
    \/ \E name \in AgentNames : unregister_agent(name)
    \/ \E task \in Tasks, preferred \in AgentNames \cup {NoAgent} :
          select_best_agent(task, preferred)
    \/ \E task \in Tasks, preferred \in AgentNames \cup {NoAgent},
          throws \in BOOLEAN :
          execute_task(task, preferred, NoAgent, throws)
    \/ \E agent_name \in AgentNames, throws \in BOOLEAN :
          execute_task({}, NoAgent, agent_name, throws)
    \/ \E agents_needed \in AgentLists, strategy \in Strategies :
          \E throws \in [1..Len(agents_needed) -> BOOLEAN] :
             coordinate_agents(agents_needed, strategy, throws)
    \/ \E agents_needed \in AgentLists :
          coordinate_agents(agents_needed, "round-robin", <<>>)

----------------------------------------------------------------------------
(* AgentOrchestrator: messaging.  A message is its number in the order of
   sending with its two ends; an asyncio.Queue is the list of what it
   holds, put at the end and got from the front. *)

\* None as the value of receive_message
NoMessage == [id |-> 0]

\* the agents that send and are sent to
MailNames == {"email", "web"}

\* Queue.get_nowait taking the newest message
QueueGet_Newest(msgs) ==
    [item |-> msgs[Len(msgs)], rest |-> SubSeq(msgs, 1, Len(msgs) - 1)]

\* Queue.get_nowait: popleft of the deque
QueueGet(msgs) == [item |-> Head(msgs), rest |-> Tail(msgs)]

\* agent_stats[name] read by send_message: the entry is made when absent
TouchStats(st, name) ==
    IF name \in DOMAIN st.stats THEN st
    ELSE [stats |-> (name :> StatsEntry(st.stats, name)) @@ st.stats,
          order |-> Append(st.order, name)]

\* send_message(AgentMessage(from_agent, to_agent, ...)): put on an
\* unbounded Queue does not suspend
send_message(from, to) ==
    /\ or_nsent < MaxSent
    /\ or_nsent' = or_nsent + 1
    /\ IF to \notin DOMAIN or_queues
       THEN /\ or_last' = [kind |-> "send", queue |-> 0]
            /\ UNCHANGED <<or_mail, or_sent, or_stats, or_stats_order>>
       ELSE LET q == or_queues[to]
                m == [id |-> or_nsent + 1, from |-> from, to |-> to]
                st == TouchStats(TouchStats([stats |-> or_stats,
                                             order |-> or_stats_order],
                                            from), to)
            IN  /\ or_mail' = [or_mail EXCEPT ![q] = Append(@, m)]
                /\ or_sent' = [or_sent EXCEPT ![q] = Append(@, m)]
                /\ or_stats' = st.stats
                /\ or_stats_order' = st.order
                /\ or_last' = [kind |-> "send", queue |-> q]
    /\ UNCHANGED <<or_agents, or_queues, or_recv, or_waiting, or_tasks>>
    /\ UNCHANGED nonOR

\* receive_message(agent_name, timeout) is called by coroutine r: None at
\* once for a name without a queue, else it waits on the queue of the name
receive_message(r, agent_name) ==
    /\ or_waiting[r] = 0
    /\ IF agent_name \notin DOMAIN or_queues
       THEN /\ or_last' = [kind |-> "receive", receiver |-> r, queue |-> 0,
                           message |-> NoMessage]
            /\ UNCHANGED or_waiting
       ELSE /\ or_waiting' = [or_waiting EXCEPT ![r] = or_queues[agent_name]]
            /\ or_last' = [kind |-> "wait", receiver |-> r,
                           queue |-> or_queues[agent_name]]
    /\ UNCHANGED <<or_agents, or_stats, or_stats_order, or_queues, or_mail,
                   or_sent, or_recv, or_nsent, or_tasks>>
    /\ UNCHANGED nonOR

\* the Queue.get awaited by r completes: receive_message returns the message
ReceiveReturns(r) ==
    /\ or_waiting[r] # 0
    /\ or_mail[or_waiting[r]] # <<>>
    /\ LET q == or_waiting[r]
           g == QueueGet(or_mail[q])
       IN  /\ or_mail' = [or_mail EXCEPT ![q] = g.rest]
           /\ or_recv' = [or_recv EXCEPT ![q] = Append(@, g.item)]
           /\ or_last' = [kind |-> "receive", receiver |-> r, queue |-> q,
                          message |-> g.item]
    /\ or_waiting' = [or_waiting EXCEPT ![r] = 0]
    /\ UNCHANGED <<or_agents, or_stats, or_stats_order, or_queues, or_sent,
                   or_nsent, or_tasks>>
    /\ UNCHANGED nonOR

\* wait_for times out before the get completes: asyncio.TimeoutError is
\* caught and receive_message returns None
ReceiveTimesOut(r) ==
    /\ or_waiting[r] # 0
    /\ or_waiting' = [or_waiting EXCEPT ![r] = 0]
    /\ or_last' = [kind |-> "timeout", receiver |-> r, queue |-> or_waiting[r],
                   message |-> NoMessage]
    /\ UNCHANGED <<or_agents, or_stats, or_stats_order, or_queues, or_mail,
                   or_sent, or_recv, or_nsent, or_tasks>>
    /\ UNCHANGED nonOR

NextMail ==
    \/ \E name \in MailNames : register_agent(name)
    \/ \E name \in MailNames : unregister_agent(name)
    \/ \E from \in MailNames, to \in MailNames : send_message(from, to)
    \/ \E r \in Receivers, name \in MailNames : receive_message(r, name)
    \/ \E r \in Receivers : ReceiveReturns(r)
    \/ \E r \in Receivers : ReceiveTimesOut(r)

----------------------------------------------------------------------------
(* Specifications *)

InitSpecWF == InitWF /\ ParkedER /\ ParkedDL /\ ParkedTQ /\ ParkedTS
    /\ ParkedRE /\ ParkedOR

InitSpecER == InitER /\ ParkedWF /\ ParkedDL /\ ParkedTQ /\ ParkedTS
    /\ ParkedRE /\ ParkedOR

InitSpecDL == InitDL /\ ParkedWF /\ ParkedER /\ ParkedTQ /\ ParkedTS
    /\ ParkedRE /\ ParkedOR

InitSpecTQ == InitTQ /\ ParkedWF /\ ParkedER /\ ParkedDL /\ ParkedTS
    /\ ParkedRE /\ ParkedOR

InitSpecTS == InitTS /\ InitTQ /\ ParkedWF /\ ParkedER /\ ParkedDL
    /\ ParkedRE /\ ParkedOR

InitSpecRE ==
    InitRE /\ ParkedWF /\ ParkedER /\ ParkedDL /\ ParkedTQ /\ ParkedTS
    /\ ParkedOR

InitSpecOR ==
    InitOR /\ ParkedWF /\ ParkedER /\ ParkedDL /\ ParkedTQ /\ ParkedTS
    /\ ParkedRE

InitSpecStep ==
    InitStep /\ ParkedER /\ ParkedDL /\ ParkedTQ /\ ParkedTS /\ ParkedRE
    /\ ParkedOR

SpecStep == InitSpecStep /\ [][NextStep]_vars

InitSpecCond ==
    InitCond /\ ParkedER /\ ParkedDL /\ ParkedTQ /\ ParkedTS /\ ParkedRE
    /\ ParkedOR

SpecCond == InitSpecCond /\ [][NextWF]_vars

SpecOrch == InitSpecOR /\ [][NextOrch]_vars

SpecMail == InitSpecOR /\ [][NextMail]_vars

SpecRules == InitSpecRE /\ [][NextRE]_vars

SpecSched == InitSpecTS /\ [][NextTS]_vars

SpecToggle == InitSpecTS /\ [][NextToggle]_vars

SpecQueue == InitSpecTQ /\ [][NextTQ]_vars

SpecDelay == InitSpecDL /\ [][NextDL]_vars

SpecWF == InitSpecWF /\ [][NextWF]_vars

SpecER == InitSpecER /\ [][NextER]_vars

SpecRetry == InitSpecER /\ [][NextRetry]_vars

SpecOutcome == InitSpecER /\ [][NextOutcome]_vars

Spec == SpecWF

----------------------------------------------------------------------------
(* Properties of WorkflowEngine *)

\* the steps a step depends on, directly or through other steps
RECURSIVE DepsWithin(_, _)
DepsWithin(S, n) ==
    IF n = 0 THEN S
    ELSE DepsWithin(S \cup UNION {depends_on[s] \cap StepIds : s \in S}, n - 1)

DepsClosure(s) == DepsWithin(depends_on[s] \cap StepIds, Cardinality(StepIds))

Acyclic == \A s \in StepIds : s \notin DepsClosure(s)

AllDepsExist == \A s \in StepIds : depends_on[s] \subseteq StepIds

WFDone == wpc = "done"

\* C1: for a workflow with an acyclic depends_on graph (either mode, any
\* retry_count, any executor outcomes), when execute_workflow has returned
\* every step is success, failed or skipped: none is pending or running.
C1_AllStepsTerminal ==
    (WFDone /\ Acyclic /\ AllDepsExist)
        => \A s \in StepIds : step_status[s] \in Terminal

\* C2: when execute_workflow has returned for a workflow in which some step
\* depends on an id that is no step (and no steps depend on each other in a
\* cycle), every step that depends on such an id is skipped with
\* "Dependencies not met", and every step whose dependencies all exist has
\* a terminal status, in both modes.
C2_MissingDepSkipped ==
    (WFDone /\ Acyclic /\ ~AllDepsExist) =>
        \A s \in StepIds :
            /\ (MissingId \in depends_on[s])
                  => (step_status[s] = "skipped" /\ step_error[s] = DepsNotMet)
            /\ (depends_on[s] \subseteq StepIds)
                  => step_status[s] \in Terminal

\* C3: sequential mode: if step a ended failed and step b depends only on
\* a, then b's executor was invoked and b's final status is decided by b's
\* own executor outcome (success iff its last call returned, failed iff its
\* last call raised).
C3_FailedDepDoesNotBlock ==
    (WFDone /\ ~parallel) =>
        \A a, b \in StepIds :
            (step_status[a] = "failed" /\ depends_on[b] = {a}) =>
                /\ invoked[b] >= 1
                /\ step_status[b] = "success" <=> last_ok[b] = "ok"
                /\ step_status[b] = "failed" <=> last_ok[b] = "raised"

\* C4 as stated: when execute_workflow has returned, the status is failed
\* if some step ended failed and success if no step ended failed.
C4_StatusFromStepsOnly ==
    WFDone =>
        returned = IF \E s \in StepIds : step_status[s] = "failed"
                   THEN "failed" ELSE "success"

\* C4 amended: when execute_workflow has returned, the status is failed if
\* some step ended failed or the engine raised while running the steps
\* (parallel mode: level computation on a missing or cyclic dependency),
\* and success otherwise; skipped steps do not count as failures.
C4_FinalStatus ==
    WFDone =>
        returned = IF raised \/ \E s \in StepIds : step_status[s] = "failed"
                   THEN "failed" ELSE "success"

\* a run that returned success although a step was skipped and none failed
C4_Witness ==
    /\ WFDone
    /\ ~raised
    /\ \E s \in StepIds : step_status[s] = "skipped"
    /\ \E s \in StepIds : step_status[s] = "success"
    /\ \A s \in StepIds : step_status[s] # "failed"
    /\ returned = "success"

\* step s is dispatched by this step of the engine: _execute_step is entered
Dispatched(s) == step_status[s] = "pending" /\ step_status'[s] = "running"

\* C21: while the workflow status is paused or cancelled (pause_workflow or
\* cancel_workflow called during execute_workflow) the engine dispatches no
\* step that has not yet started, in sequential and in parallel mode.
C21_NoDispatchWhileHalted ==
    [][(wf_status \in {"paused", "cancelled"})
          => (\A s \in StepIds : ~Dispatched(s))]_vars

\* the level the rule gives step s from the levels of its dependencies
LevelRule(s) ==
    IF depends_on[s] = {} THEN 0
    ELSE 1 + SetMax({StepLevel(d) : d \in depends_on[s]})

\* C29: parallel mode, levels computable: a step's level is 0 without
\* dependencies and 1 + the maximum level of its dependencies otherwise, and
\* no step's executor is invoked before every step of every lower level has
\* reached a terminal status.
C29_LevelsJoin ==
    (parallel /\ ~LevelsRaise) =>
        /\ \A s \in StepIds : StepLevel(s) = LevelRule(s)
        /\ \A s, t \in StepIds :
              (invoked[s] >= 1 /\ StepLevel(t) < StepLevel(s))
                  => step_status[t] \in Terminal

\* C30: parallel mode, depends_on with a cycle: once execute_workflow has
\* been called it has returned (no state in which it waits), the status it
\* returns is failed and no step's executor has been invoked.
C30_CycleFailsFast ==
    (parallel /\ ~Acyclic /\ wpc # "idle") =>
        /\ WFDone
        /\ returned = "failed"
        /\ \A s \in StepIds : invoked[s] = 0

\* execute_workflow has returned for a parallel workflow whose steps all
\* exist and depend on each other in a cycle
C30_Witness ==
    /\ parallel
    /\ ~Acyclic
    /\ AllDepsExist
    /\ \E s \in StepIds : s \notin depends_on[s]
    /\ WFDone
    /\ returned = "failed"

\* the steps the sequential loop can reach: those whose dependencies are
\* all reachable steps
RECURSIVE RunnableWithin(_, _)
RunnableWithin(S, n) ==
    IF n = 0 THEN S
    ELSE RunnableWithin(S \cup {s \in StepIds : depends_on[s] \subseteq S},
                        n - 1)

\* the blocked set: the steps behind a dependency cycle or a missing id
Blocked == StepIds \ RunnableWithin({}, Cardinality(StepIds))

\* C31: sequential mode: when execute_workflow has returned, every step of
\* the blocked set (no pending step was ready, pending steps remained) is
\* skipped with "Dependencies not met" and its executor was never invoked,
\* and every step outside the blocked set has been executed: its executor
\* was invoked and it ended success or failed.
C31_BlockedStepsSkipped ==
    (~parallel /\ WFDone) =>
        \A s \in StepIds :
            IF s \in Blocked
            THEN /\ step_status[s] = "skipped"
                 /\ step_error[s] = DepsNotMet
                 /\ invoked[s] = 0
            ELSE /\ invoked[s] >= 1
                 /\ step_status[s] \in {"success", "failed"}

\* C32: within the run of execute_workflow, in either mode, a step that
\* has reached success, failed or skipped keeps that status and its executor
\* is not invoked again.
C32_TerminalIsFinal ==
    [][\A s \in StepIds :
          (step_status[s] \in Terminal)
              => (step_status'[s] = step_status[s]
                  /\ invoked'[s] = invoked[s])]_vars

\* the run goes on after a step ended: one step has failed after a call of
\* its executor, one was skipped, and the executor of another is awaited
C32_Witness ==
    /\ \E s \in StepIds : step_status[s] = "failed" /\ invoked[s] >= 1
    /\ \E s \in StepIds : step_status[s] = "success"
    /\ \E s \in StepIds : spc[s] = "awaiting" /\ attempts[s] >= 2

\* what C34 says of step s in one state
StepWithinRetryCount(s) ==
    /\ invoked[s] <= retry_count[s]
    /\ attempts[s] = invoked[s]
    /\ step_status[s] = "success" => last_ok[s] = "ok"
    /\ spc[s] = "done" =>
          step_status[s] =
              IF invoked[s] = retry_count[s] /\ last_ok[s] = "raised"
              THEN "failed" ELSE "success"

\* what C34 says of one step of the engine: no call of the executor of s
\* after one that returned, and s turning failed leaves the others alone
StepFailsAlone(s) ==
    /\ last_ok[s] = "ok" => invoked'[s] = invoked[s]
    /\ (step_status[s] # "failed" /\ step_status'[s] = "failed") =>
          \A u \in StepIds \ {s} : step_status'[u] = step_status[u]

\* C34: for a step with retry_count = n >= 1 the executor is invoked at
\* most n times and never after its first success, attempts equals the
\* number of invocations, the step ends failed exactly when all n
\* invocations raised and success otherwise, and its failure changes the
\* status of no other step.
C34_RetryCountBoundsStep ==
    /\ [](\A s \in StepIds : retry_count[s] >= 1 => StepWithinRetryCount(s))
    /\ [][\A s \in StepIds : retry_count[s] >= 1 => StepFailsAlone(s)]_vars

\* a step with retry_count >= 2 has failed after retry_count invocations,
\* and a step that depends on it has succeeded at its second attempt
C34_Witness ==
    \E s, u \in StepIds :
        /\ retry_count[s] >= 2 /\ invoked[s] = retry_count[s]
        /\ step_status[s] = "failed"
        /\ s \in depends_on[u]
        /\ invoked[u] = 2 /\ step_status[u] = "success"

\* the policy C33 names for step s: max_attempts = retry_count,
\* exponential backoff, base_delay 1 s, the other fields at their defaults
StepPolicy(s) ==
    [max_attempts |-> retry_count[s], backoff_strategy |-> "exponential",
     base_delay |-> DefaultBaseDelay, max_delay |-> DefaultMaxDelay,
     retry_on_errors |-> DefaultRetryOn, fallback_action |-> FALSE]

\* the executor call of step s raises in this step of the engine
ExecutorRaised(s) ==
    /\ spc[s] = "awaiting"
    /\ spc'[s] \in {"sleeping", "done"}
    /\ last_ok'[s] = "raised"

\* C33: _execute_step makes the retry decisions of execute_with_retry under
\* the policy {max_attempts: retry_count, exponential, base_delay 1 s}: after
\* a call of the executor raised, the step sleeps and calls again exactly
\* when the error's category is retryable and the attempt was not the last,
\* and otherwise makes no further call.
C33_StepAsExecuteWithRetry ==
    [][\A s \in StepIds :
          ExecutorRaised(s) =>
              ((spc'[s] = "sleeping")
                  <=> (/\ IsRetryable(StepPolicy(s), ErrorWords(step_error'[s]))
                       /\ ~IsLastAttempt(StepPolicy(s), attempts[s])))]_vars

\* C35: with a collector installed, when execute_workflow has returned the
\* first event received was the start event, every step whose executor was
\* invoked has at least one event, and the latest event is a completion
\* event (neither the start event nor a step event) whose status is the
\* status the workflow ended with.
C35_StartStepsCompletion ==
    WFDone =>
        /\ updates.first = "started"
        /\ \A s \in StepIds : invoked[s] >= 1 => s \in updates.steps
        /\ updates.last \notin {"started", "step"}
        /\ updates.final = returned

\* the condition of step s evaluated against the results accumulated so
\* far: absent, or the step it names has the status it names
ConditionHolds(s) ==
    \/ step_condition[s] = NoCondition
    \/ step_status[step_condition[s].step] = step_condition[s].status

\* step s, ready, is taken up by this step of the engine
TakenUp(s) ==
    /\ step_status[s] = "pending"
    /\ step_status'[s] # "pending"
    /\ step_error'[s] # DepsNotMet

\* C36: a ready step whose condition is false against the accumulated
\* results is marked skipped with "Condition not met" and its executor is
\* not invoked; a step whose condition is true or absent is executed.
C36_ConditionGuardsStep ==
    [][\A s \in StepIds :
          TakenUp(s) =>
              IF ConditionHolds(s)
              THEN step_status'[s] = "running"
              ELSE /\ step_status'[s] = "skipped"
                   /\ step_error'[s] = CondNotMet
                   /\ invoked'[s] = invoked[s]]_vars

----------------------------------------------------------------------------
(* Properties of ErrorRecovery *)

ExhaustKinds == {"error", "fallback"}

IsEvent == last.kind # "none"

\* C5: the breaker of a context is closed while fewer than `threshold`
\* retry-exhaustions have followed its last success (or reset), the
\* failure count is that number, the exhaustion that makes it `threshold`
\* leaves the breaker open, and a success sets the count back to 0.
C5_OpensAtThreshold ==
    /\ \A c \in Contexts :
          /\ BreakerFailures(circuit_breakers, c) = consec[c]
          /\ consec[c] < Threshold
                => BreakerState(circuit_breakers, c) \in {"absent", "closed"}
          /\ consec[c] >= Threshold
                => BreakerState(circuit_breakers, c) \in {"open", "half-open"}
    /\ (IsEvent /\ last.kind \in ExhaustKinds)
          => /\ last.failures_after = last.failures_before + 1
             /\ last.state_after =
                   IF last.failures_after >= Threshold THEN "open" ELSE "closed"
    /\ (IsEvent /\ last.kind = "result") => consec[last.context] = 0

\* the threshold-th consecutive exhaustion has just opened a closed breaker
C5_Witness ==
    /\ IsEvent
    /\ last.kind \in ExhaustKinds
    /\ last.state_before = "closed"
    /\ last.failures_before = Threshold - 1
    /\ consec[last.context] = Threshold
    /\ BreakerState(circuit_breakers, last.context) = "open"

\* C6: an open breaker stays open until its cool-down has elapsed since
\* opened_at, whatever step the concurrent calls take (reset_circuit_breaker
\* excluded).
C6_StaysOpenUntilCoolDown ==
    [][\A c \in Contexts :
          (/\ BreakerState(circuit_breakers, c) = "open"
           /\ ~CooledDown(circuit_breakers, c, now)
           /\ ~ResetCircuitBreaker(c))
              => BreakerState(circuit_breakers', c) = "open"]_vars

\* C7: while the trial call admitted by the move to half-open is in flight
\* and the breaker is half-open, another call on the context (with attempts
\* to make) is rejected without invoking its operation.
C7_OneTrialOnly ==
    (/\ IsEvent
     /\ last.at_entry
     /\ last.policy.max_attempts >= 1
     /\ last.state_before = "half-open"
     /\ \E q \in Procs \ {last.proc} :
           /\ InFlight(q)
           /\ calls[q].trial
           /\ calls[q].context = last.context)
        => (last.kind = "circuit_open" /\ last.invoked = 0)

\* the call ended while its breaker was half-open (or it is a trial that
\* ended in the step that admitted it)
EndedHalfOpen ==
    \/ last.state_before = "half-open"
    \/ last.at_entry /\ last.trial

C9_FastFail ==
    (IsEvent /\ last.at_entry /\ last.state_before = "open" /\ ~last.cooled)
        => /\ last.kind = "circuit_open"
           /\ last.invoked = 0
           /\ last.fb_invoked = 0
           /\ last.state_after = "open"
           /\ last.failures_after = last.failures_before
           /\ ~InFlight(last.proc)

\* a call with a fallback and attempts to make has just been rejected, with
\* some but not all of the cool-down elapsed
C9_Witness ==
    /\ IsEvent
    /\ last.kind = "circuit_open"
    /\ last.policy.fallback_action
    /\ last.policy.max_attempts >= 1
    /\ last.invoked = 0
    /\ last.at > last.opened_after
    /\ BreakerState(circuit_breakers, last.context) = "open"

\* the delays calculate_delay(1), ..., calculate_delay(n) can take
DelaysUpTo(pol, n) ==
    [a \in 1..n |->
        {CalculateDelay(pol, a, j) : j \in JitterDraws(pol, a)}]

\* C10: a call with max_attempts = n >= 1 whose operation failed with a
\* network error every time invoked it exactly n times, slept exactly n - 1
\* times, with the delays calculate_delay(1), ..., calculate_delay(n - 1)
\* (1 s then 2 s for exponential with base 1 s and n = 3), and raised the
\* failure count of its context by exactly 1.
C10_RetrySchedule ==
    (/\ IsEvent
     /\ last.kind \in ExhaustKinds
     /\ last.policy.max_attempts >= 1
     /\ CategorizeError(last.last_error) = "network"
     /\ "network" \in last.policy.retry_on_errors
     /\ \A i \in 1..Len(last.errors) :
           CategorizeError(last.errors[i]) = "network")
        => LET pol == last.policy
               n == pol.max_attempts
           IN  /\ last.invoked = n
               /\ Len(last.sleeps) = n - 1
               /\ \A a \in 1..(n - 1) :
                     last.sleeps[a] \in DelaysUpTo(pol, n - 1)[a]
               /\ (/\ pol.backoff_strategy = "exponential"
                   /\ pol.base_delay = 1 * DelayScale
                   /\ n = 3)
                      => last.sleeps = <<1 * DelayScale, 2 * DelayScale>>
               /\ last.failures_after = last.failures_before + 1

\* the scenario of the claim: 3 attempts, sleeps of 1 and 2, count + 1
C10_Witness ==
    /\ IsEvent
    /\ last.kind = "error"
    /\ last.policy.max_attempts = 3
    /\ last.policy.backoff_strategy = "exponential"
    /\ last.policy.base_delay = 1 * DelayScale
    /\ \A i \in 1..Len(last.errors) :
          CategorizeError(last.errors[i]) = "network"
    /\ last.invoked = 3
    /\ last.sleeps = <<1 * DelayScale, 2 * DelayScale>>
    /\ last.failures_before = 0
    /\ last.failures_after = 1

\* the call ended on an error of a category its policy does not retry
AbortedNonRetryable ==
    /\ IsEvent
    /\ last.kind \in ExhaustKinds
    /\ last.invoked >= 1
    /\ CategorizeError(last.last_error) \notin last.policy.retry_on_errors

\* C11: no call goes on (to a sleep or another invocation) after an error
\* whose category is not in its policy's retryable set; the call ends at
\* that error, which is then the only non-retryable one it has seen, with
\* one invocation per error and one sleep per earlier error.
C11_NonRetryableAborts ==
    /\ \A p \in Procs :
          InFlight(p)
              => \A i \in 1..Len(calls[p].errors) :
                    CategorizeError(calls[p].errors[i])
                        \in calls[p].policy.retry_on_errors
    /\ AbortedNonRetryable
          => /\ ~InFlight(last.proc)
             /\ last.invoked = Len(last.errors)
             /\ Len(last.sleeps) = last.invoked - 1
             /\ \A i \in 1..(Len(last.errors) - 1) :
                   CategorizeError(last.errors[i])
                       \in last.policy.retry_on_errors

\* a call with 3 attempts allowed has just ended on a non-retryable error
\* of its second attempt, and one on a non-retryable error of its first
C11_Witness ==
    /\ AbortedNonRetryable
    /\ last.policy.max_attempts = 3
    /\ last.invoked = 2
    /\ Len(last.sleeps) = 1

\* C12: a call whose operation returns ends there: it returns the result of
\* that invocation (the last one made, one more than the sleeps), the
\* fallback is not invoked, and the breaker is left closed with failure
\* count 0, whatever its state and count before.
C12_SuccessCloses ==
    (IsEvent /\ last.kind = "result")
        => /\ last.returned = "result"
           /\ last.raised = NoErr
           /\ ~InFlight(last.proc)
           /\ last.invoked = Len(last.errors) + 1
           /\ last.invoked = Len(last.sleeps) + 1
           /\ last.fb_invoked = 0
           /\ last.state_after = "closed"
           /\ last.failures_after = 0
           /\ BreakerState(circuit_breakers, last.context) = "closed"
           /\ BreakerFailures(circuit_breakers, last.context) = 0

\* the second attempt of a half-open trial has just succeeded on a breaker
\* that held at least `threshold` failures
C12_Witness ==
    /\ IsEvent
    /\ last.kind = "result"
    /\ last.invoked = 2
    /\ last.state_before = "half-open"
    /\ last.failures_before >= Threshold
    /\ BreakerState(circuit_breakers, last.context) = "closed"

\* the last error the call observed; None when it observed none
LastObserved ==
    IF Len(last.errors) = 0 THEN NoErr ELSE last.errors[Len(last.errors)]

\* C13: a call that ends exhausted invokes the fallback of its policy
\* exactly once, with the last error observed, and returns the fallback's
\* result (if the fallback itself raises, the last error observed is
\* raised); without a fallback it raises the last error observed.
C13_FallbackOrLastError ==
    (IsEvent /\ last.kind \in ExhaustKinds)
        => /\ Len(last.errors) = last.invoked
           /\ last.policy.fallback_action
                 => /\ last.fb_invoked = 1
                    /\ last.fb_arg = LastObserved
                    /\ \/ last.returned = "fallback" /\ last.raised = NoErr
                       \/ last.returned = "none" /\ last.raised = LastObserved
           /\ ~last.policy.fallback_action
                 => /\ last.fb_invoked = 0
                    /\ last.returned = "none"
                    /\ last.raised = LastObserved

\* C40: in every state, under every interleaving of concurrent
\* execute_with_retry calls and reset_circuit_breaker calls, the breaker of
\* every context is closed, open or half-open; open or half-open implies
\* failures >= threshold and opened_at set; closed implies failures <
\* threshold.
C40_BreakerStateMatchesCount ==
    \A c \in DOMAIN circuit_breakers :
        LET b == circuit_breakers[c]
        IN  /\ b.state \in {"closed", "open", "half-open"}
            /\ b.state \in {"open", "half-open"}
                  => (b.failures >= b.threshold /\ b.opened_at # NoTime)
            /\ b.state = "closed" => b.failures < b.threshold

\* a breaker that is half-open for the trial call of one caller while the
\* failure count is above the threshold: a call of the other caller, admitted
\* before the breaker opened, failed after it
C40_Witness ==
    \E c \in DOMAIN circuit_breakers :
        /\ circuit_breakers[c].state = "half-open"
        /\ circuit_breakers[c].failures > circuit_breakers[c].threshold
        /\ \E p \in Procs : InFlight(p) /\ calls[p].trial

----------------------------------------------------------------------------
(* Properties of RetryPolicy.calculate_delay *)

\* the strategies whose delay grows with the attempt
GrowingStrategies == {"linear", "exponential", "fibonacci", "jitter"}

\* C14: for base_delay >= 0 and attempt a >= 1, calculate_delay(a) is at
\* most max_delay, and for linear, exponential, fibonacci and jitter
\* calculate_delay(a) <= calculate_delay(a + 1), whatever the two jitter
\* draws.
C14_DelayCappedMonotone ==
    dl_attempt >= 1
        => /\ dl_delay <= dl_policy.max_delay
           /\ dl_next <= dl_policy.max_delay
           /\ dl_policy.backoff_strategy \in GrowingStrategies
                 => dl_delay <= dl_next

\* a jitter policy whose delay has grown from one attempt to the next and
\* has reached the cap at the second
C14_Witness ==
    /\ dl_attempt >= 2
    /\ dl_policy.backoff_strategy = "jitter"
    /\ dl_policy.base_delay = DefaultBaseDelay
    /\ dl_delay < dl_next
    /\ dl_delay > dl_policy.base_delay * Pow2(dl_attempt - 1)
    /\ dl_next = dl_policy.max_delay

----------------------------------------------------------------------------
(* Properties of TaskQueue *)

\* the entry of the pushes `order` that is to leave first: the earliest of
\* those with the lowest priority number
FirstOut(order) ==
    LET i == CHOOSE i \in 1..Len(order) :
                 /\ \A j \in 1..Len(order) :
                       order[i].priority <= order[j].priority
                 /\ \A j \in 1..(i - 1) :
                       order[j].priority > order[i].priority
    IN  [index |-> i, entry |-> order[i]]

\* C15: pop returns the task of the queued entry with the lowest priority
\* number, the earliest pushed among equals, and removes that entry; it
\* returns None exactly when the queue is empty; and the list and the
\* history always hold the same entries.
C15_PopLowestFifo ==
    /\ Len(tq_queue) = Len(tq_order)
    /\ {tq_queue[i] : i \in 1..Len(tq_queue)}
          = {tq_order[i] : i \in 1..Len(tq_order)}
    /\ tq_last.kind = "pop"
          => IF tq_last.before = <<>>
             THEN tq_last.result = NoTask
             ELSE LET f == FirstOut(tq_last.before)
                  IN  /\ tq_last.result = f.entry.task
                      /\ tq_last.result # NoTask
                      /\ tq_order = RemoveAt(tq_last.before, f.index)

\* a pop has just returned the second-pushed of four entries: it shares
\* the lowest priority with a later one, and the first-pushed entry of
\* another task has a higher number
C15_Witness ==
    /\ tq_last.kind = "pop"
    /\ Len(tq_last.before) = 4
    /\ FirstOut(tq_last.before).index = 2
    /\ tq_last.before[1].task # tq_last.result
    /\ \E j \in 3..4 :
          /\ tq_last.before[j].priority = tq_last.before[2].priority
          /\ tq_last.before[j].task # tq_last.result

----------------------------------------------------------------------------
(* Properties of TaskScheduler *)

\* C16: a task whose run_count has reached its max_runs (>= 1) keeps a
\* run_count of at least max_runs, and should_run() is false for it in
\* every state from then on, whatever ticks, recalculations of next_run and
\* calls of enable_task and disable_task follow.
C16_MaxRunsStops ==
    \A task \in ts_reached :
        /\ task_objs[task].max_runs >= 1
        /\ task_objs[task].run_count >= task_objs[task].max_runs
        /\ ~ShouldRun(task_objs[task], ts_now)

\* a task with max_runs = 2 has started twice and, at a later reading of
\* the clock, is enabled and due
C16_Witness ==
    \E task \in ts_reached :
        /\ task_objs[task].max_runs = 2
        /\ task_objs[task].run_count = 2
        /\ task_objs[task].enabled
        /\ task_objs[task].next_run # NoTime
        /\ ts_now >= task_objs[task].next_run
        /\ ts_now > task_objs[task].last_run

\* C17: the executions launched and not finished are at most max_concurrent.
C17_AtMostMaxConcurrent ==
    Cardinality(DOMAIN ts_execs) <= max_concurrent

\* C18: no iteration of the loop begins after a slot was freed, with work
\* waiting in the queue, since the iteration before: the waiting task was
\* launched before the tick.
C18_DrainsBetweenTicks ==
    ts_last.kind = "tick" => ~ts_last.starved

\* C19: a task of type once with no max_runs is launched at most once.
C19_OnceRunsOnce ==
    \A task \in DOMAIN task_objs :
        (/\ task_objs[task].schedule_type = "once"
         /\ task_objs[task].max_runs = NoMaxRuns)
            => ts_launches[task] <= 1

\* an execution whose workflow executor raised has just ended
FailedFinish == ts_last.kind = "finish" /\ ~ts_last.ok

\* C20: when the executor of an execution raises, its task leaves
\* running_tasks, every other entry of running_tasks and every other task
\* is as before, the loop is where it was (asleep until the same wake-up),
\* and next_run of the task is recalculated if the task is enabled and
\* left alone if not.
C20_ErrorIsolated ==
    FailedFinish
        => LET task == ts_last.task
               before == ts_last.objs_before[task]
           IN  /\ task \notin DOMAIN running_tasks
               /\ running_tasks = Without(ts_last.running_before, task)
               /\ \A u \in DOMAIN task_objs \ {task} :
                     task_objs[u] = ts_last.objs_before[u]
               /\ <<ts_loop, ts_wake>> = ts_last.loop_before
               /\ task_objs[task].next_run =
                     IF before.enabled
                     THEN NextRunOf(before, ts_last.at)
                     ELSE before.next_run
               /\ task_objs[task].run_count = before.run_count

\* the executor of an enabled task has just raised while the loop sleeps
\* and an execution of the other task is in flight; the task has a new
\* next_run and its slot is free
C20_Witness ==
    /\ FailedFinish
    /\ ts_loop = "sleeping"
    /\ ts_last.objs_before[ts_last.task].enabled
    /\ ts_last.task \in DOMAIN ts_last.running_before
    /\ task_objs[ts_last.task].next_run
          # ts_last.objs_before[ts_last.task].next_run
    /\ \E x \in DOMAIN ts_execs : ts_execs[x].task # ts_last.task

\* C37: a task with max_runs = n >= 1 is executed at most n times:
\* run_count <= max_runs in every state.
C37_RunCountWithinMaxRuns ==
    \A task \in DOMAIN task_objs :
        task_objs[task].max_runs # NoMaxRuns
            => task_objs[task].run_count <= task_objs[task].max_runs

\* the executions of a task that were launched and have not finished
Unfinished(task) == {x \in DOMAIN ts_execs : ts_execs[x].task = task}

\* C38: no task has two executions in flight, and running_tasks holds
\* exactly the tasks with an unfinished execution, so that its length is the
\* number of unfinished executions.
C38_RunningTasksExact ==
    /\ \A task \in TaskIds :
          /\ Cardinality(Unfinished(task)) <= 1
          /\ task \in DOMAIN running_tasks <=> Unfinished(task) # {}
    /\ Cardinality(DOMAIN running_tasks) = Cardinality(DOMAIN ts_execs)

\* C39: while a task is disabled (disable_task returned, enable_task not
\* called since) or removed (remove_scheduled_task returned), the scheduler
\* launches no execution of it, entries already in the queue included.
C39_NoLaunchAfterDisable ==
    [][\A task \in DOMAIN task_objs :
          (~task_objs[task].enabled \/ task \notin Scheduled)
              => ts_launches'[task] = ts_launches[task]]_vars

----------------------------------------------------------------------------
(* Properties of RulesEngine *)

\* the conditions of a rule that are false in a context: their indexes
FalseConditions(rule, context) ==
    {i \in 1..Len(rule.conditions) :
        ~EvaluateCondition(rule.conditions[i], context)}

SetMin(S) == CHOOSE m \in S : \A x \in S : m <= x

\* C22: evaluate_rule returns true only if the rule is enabled and every
\* condition is true, and with a false condition it returns false having
\* evaluated the conditions up to the first false one and none after it.
C22_ShortCircuitAnd ==
    re_last.kind = "rule" =>
        LET rule == re_rules[re_last.rule]
            false == FalseConditions(rule, re_context)
        IN  /\ re_last.result => (rule.enabled /\ false = {})
            /\ (rule.enabled /\ false # {}) =>
                  /\ ~re_last.result
                  /\ re_last.evaluated = SetMin(false)

\* evaluate_rule answered false for an enabled rule of two conditions after
\* the first one
C22_Witness ==
    /\ re_last.kind = "rule"
    /\ re_rules[re_last.rule].enabled
    /\ Len(re_rules[re_last.rule].conditions) = 2
    /\ 1 \in FalseConditions(re_rules[re_last.rule], re_context)
    /\ ~re_last.result
    /\ re_last.evaluated = 1

\* the action_executor calls of the latest evaluate_all_rules for rule id
InvokedActions(id) ==
    {re_last.log[i].index : i \in {j \in 1..Len(re_last.log) :
                                      re_last.log[j].rule = id}}

\* C23: in evaluate_all_rules with an action executor, every action of
\* every triggered rule is invoked, also after the executor raised for an
\* earlier action of the rule, and every rule enabled at the call is
\* evaluated, also after the executor raised for an earlier rule.
C23_ActionFailureIsolated ==
    (re_last.kind = "all" /\ re_executor) =>
        /\ \A i \in 1..Len(re_last.triggered) :
              InvokedActions(re_last.triggered[i])
                  = 1..Len(re_rules[re_last.triggered[i]].actions)
        /\ \A id \in DOMAIN re_last.before :
              re_last.before[id].enabled =>
                  \E i \in 1..Len(re_last.evals) : re_last.evals[i].rule = id

\* C24: evaluate_all_rules evaluates the rules enabled at the call, each
\* once, in ascending priority order, and invokes actions in that order; a
\* rule disabled at the call is not evaluated, does not trigger and keeps
\* its evaluation_count and trigger_count.
C24_EnabledByPriority ==
    re_last.kind = "all" =>
        /\ \A i, j \in 1..Len(re_last.evals) :
              i < j => /\ re_last.evals[i].rule # re_last.evals[j].rule
                       /\ re_rules[re_last.evals[i].rule].priority
                             <= re_rules[re_last.evals[j].rule].priority
        /\ \A i, j \in 1..Len(re_last.log) :
              i < j => re_rules[re_last.log[i].rule].priority
                         <= re_rules[re_last.log[j].rule].priority
        /\ \A id \in DOMAIN re_last.before :
              /\ re_last.before[id].enabled
                    <=> \E i \in 1..Len(re_last.evals) :
                          re_last.evals[i].rule = id
              /\ ~re_last.before[id].enabled =>
                    /\ \A i \in 1..Len(re_last.triggered) :
                          re_last.triggered[i] # id
                    /\ InvokedActions(id) = {}
                    /\ re_rules[id].evaluation_count
                          = re_last.before[id].evaluation_count
                    /\ re_rules[id].trigger_count
                          = re_last.before[id].trigger_count

\* both rules triggered, the one added later with the smaller priority
\* number, and its actions were invoked first
C24_Witness ==
    /\ re_last.kind = "all"
    /\ Len(re_last.triggered) = 2
    /\ re_rules[RuleOrder[2]].priority < re_rules[RuleOrder[1]].priority
    /\ Len(re_last.log) >= 2
    /\ re_last.log[1].rule = RuleOrder[2]
    /\ re_last.log[Len(re_last.log)].rule = RuleOrder[1]

----------------------------------------------------------------------------
(* Properties of AgentOrchestrator *)

\* the increase of a task counter of agent `name` by the latest execute_task
Completed(name) ==
    StatsEntry(or_stats, name).tasks_completed
        - StatsEntry(or_last.before, name).tasks_completed

Failed(name) ==
    StatsEntry(or_stats, name).tasks_failed
        - StatsEntry(or_last.before, name).tasks_failed

\* C25: execute_task does not raise; when the agent call throws or no
\* registered agent is resolved the result has success false and an error;
\* a call dispatched to a registered agent raises exactly one of that
\* agent's tasks_completed, tasks_failed by one, and no other counter
\* changes.
C25_ExecuteTaskIsolated ==
    or_last.kind = "execute" =>
        LET res == or_last.res
        IN  /\ ~res.raised
            /\ (res.threw \/ ~res.dispatched) =>
                  (~res.success /\ res.error # "none")
            /\ res.dispatched =>
                  /\ res.agent \in SeqToSet(or_agents)
                  /\ {Completed(res.agent), Failed(res.agent)} = {0, 1}
            /\ \A n \in AgentNames :
                  (~res.dispatched \/ n # res.agent) =>
                      (Completed(n) = 0 /\ Failed(n) = 0)

\* the agent call of a dispatched execute_task threw
C25_Witness ==
    /\ or_last.kind = "execute"
    /\ or_last.res.dispatched
    /\ or_last.res.threw
    /\ ~or_last.res.success
    /\ Failed(or_last.res.agent) = 1

\* C26: coordinate_agents returns success true if and only if every
\* execute_task call it made returned success true, for each strategy and
\* every list of agent names.
C26_AggregateIsAnd ==
    or_last.kind = "coordinate" =>
        (or_last.success
            <=> \A k \in 1..Len(or_last.calls) : or_last.calls[k])

\* the executor a task text is classified to, None when it has no keyword
Classified(task) == KeywordRoute(task, 1)

\* the load the rule gives a name: 0 for an executor that never ran a task
RuleLoad(name) ==
    StatsEntry(or_stats, name).tasks_completed
        + StatsEntry(or_stats, name).tasks_failed

\* C28: select_best_agent returns the preferred agent if registered;
\* otherwise the executor of the keyword classification; otherwise a
\* registered executor of the smallest load (never run: 0), the first
\* registered one when none has run; with an executor registered the
\* result is registered.
C28_SelectionPrecedence ==
    or_last.kind = "select" =>
        LET registered == SeqToSet(or_agents)
            result == or_last.result
        IN  /\ registered # {} => result \in registered
            /\ or_last.preferred \in registered =>
                  result = or_last.preferred
            /\ (or_last.preferred \notin registered
                  /\ Classified(or_last.task) \in registered) =>
                  result = Classified(or_last.task)
            /\ (or_last.preferred \notin registered
                  /\ Classified(or_last.task) \notin registered
                  /\ registered # {}) =>
                  /\ \A n \in registered : RuleLoad(result) <= RuleLoad(n)
                  /\ (\A n \in registered : RuleLoad(n) = 0) =>
                        result = or_agents[1]

IsPrefix(s, u) == Len(s) <= Len(u) /\ s = SubSeq(u, 1, Len(s))

\* C27: for every mailbox, under every interleaving of senders and
\* receivers, the messages receive_message has returned from it are, in
\* the order of their return, the first ones sent to it, each once; a
\* receive_message that times out, on an empty mailbox too, returns None
\* and takes nothing.
C27_MailboxFifo ==
    /\ \A q \in 1..Len(or_mail) :
          /\ IsPrefix(or_recv[q], or_sent[q])
          /\ or_sent[q] = or_recv[q] \o or_mail[q]
    /\ or_last.kind = "timeout" => or_last.message = NoMessage

\* two messages of one mailbox have been returned, the second to a
\* receiver that waited while the other one still waits
C27_Witness ==
    /\ or_last.kind = "receive"
    /\ or_last.queue # 0
    /\ Len(or_recv[or_last.queue]) = 2
    /\ or_recv[or_last.queue][1].from # or_recv[or_last.queue][2].from
    /\ \E r \in Receivers : or_waiting[r] = or_last.queue

====
